---------------------------- MODULE Spec2Model ----------------------------
(***************************************************************************)
(* hifi-wifi: the decision core of the network governor.                   *)
(*                                                                         *)
(*   src/src/network/tc.rs        TcManager (median + EMA + hysteresis),   *)
(*                                EthtoolManager                           *)
(*   src/src/network/stats.rs     PpsMonitor                               *)
(*   src/src/network/governor.rs  Governor::tick                           *)
(*                                                                         *)
(* Option<T> is modelled as a sequence: <<>> is None, <<x>> is Some(x).    *)
(* An f64 is modelled as a fixed-point number: the integer x stands for    *)
(* x / Scale.  Every f64 operation is the exact rational operation         *)
(* followed by rounding to the nearest multiple of 1 / Scale; a smoothing  *)
(* factor is the pair <<numerator, denominator>>.  An Instant is a whole   *)
(* number of seconds.                                                      *)
(*                                                                         *)
(* Each step of Governor::tick touches its own part of InterfaceState, so  *)
(* each is a specification of its own: SpecTc (step 4), SpecPps (the       *)
(* sampler of step 3), SpecCoal (steps 3 and 5), SpecRoam (step 6), and    *)
(* SpecFlap, the alternation scenario of the bandwidth smoother's tests.   *)
(* SpecSus feeds the smoother a sustained change, SpecCake runs step 4    *)
(* from the bitrate a device reports, SpecGates runs steps 3, 5 and 5b     *)
(* together, and SpecTick is Governor::tick as a whole over two            *)
(* interfaces, with every external call able to fail.                      *)
(* A definition named X_y next to X is X with a fault planted in it; the   *)
(* properties are checked to tell the two apart.                           *)
(***************************************************************************)
EXTENDS Integers, Sequences, FiniteSets, TLC

VARIABLES
    tc,          \* InterfaceState.tc_manager : TcManager
    tc_pc,       \* "idle", or "apply" after update_bandwidth returned true
    tc_ret,      \* return value of the last update_bandwidth call
    tc_median,   \* median computed by the last update_bandwidth call (Option)
    tc_prev,     \* the TcManager as it was before the last call
    tc_samples,  \* the samples fed so far, oldest first
    tc_rets,     \* the return value of each of those calls
    cake_res,    \* result of the last apply_cake: "none", "ok", "err"
    cake_cmds,   \* the tc commands the last apply_cake issued
    tc_op,       \* the last TcManager call: "new", "update", "apply"
    tc_arg,      \* the sample given to the last update_bandwidth call
    cake_failed, \* None, or Some(<<how, n>>) when an apply_cake failed
                 \* ("both": primary and fallback; "spawn": tc not run) and n
                 \* valid samples, at most 3, have been fed since
    cake_obs,    \* what the last step 4 of a tick saw and did
    flap,        \* the sample source of the scripted scenarios
    pps,         \* InterfaceState.pps_monitor : PpsMonitor
    pps_now,     \* Instant::now(), in seconds
    pps_prev,    \* the PpsMonitor as it was before the last sample call
    pps_read,    \* what NetStats::read returned in the last sample call
    pps_ret,     \* return value of the last sample call
    pps_rated,   \* how many sample calls have computed a rate so far
    roam_candidate,  \* InterfaceState.roam_candidate : Option<RoamCandidate>
    roam_cfg,    \* band_steering_enabled and roam_hysteresis_ticks
    roam_obs,    \* what the last band-steering step saw and did
    roam_streak, \* evaluations in a row, counted from an empty accumulator,
                 \* on which one BSSID led and beat the current AP
    roam_scans,  \* evaluations since the last scan request, and between
                 \* the last two
    coal,        \* coalescing_enabled, coalescing_stable_ticks,
                 \* pending_coalescing of InterfaceState
    game_mode_until,  \* InterfaceState.game_mode_until : Option<Instant>
    gov_now,     \* Instant::now() of the tick, in seconds
    gov_cfg,     \* game_mode_enabled and cpu_coalescing_enabled
    coal_obs,    \* what the last coalescing step saw and did
    coal_hist,   \* the last two evaluations of the coalescing gate
    coal_acts,   \* the last two coalescing actuations and their distance
    ps,          \* power_save_enabled, power_save_stable_ticks,
                 \* pending_power_save of InterfaceState
    ps_obs,      \* what the last power-save step saw and did
    ps_hist,     \* the last three evaluations of the power-save gate
    interface_states,  \* Governor.interface_states : name -> InterfaceState
    tick_cfg,    \* Governor.config: the feature switches and
                 \* roam_hysteresis_ticks
    tick_pc,     \* "sleep" between ticks, "loop" inside `for .. in
                 \* device_infos`
    tick_queue,  \* the device_infos the loop has not reached yet
    tick_count,  \* ticks started since Governor::new; Instant::now() is
                 \* tick_rate_secs times this
    tick_left,   \* ticks the behaviour may still start
    tick_obs     \* what the current (or last) tick saw and did

tcVars == <<tc, tc_pc, tc_ret, tc_median, tc_prev, tc_samples, tc_rets,
            cake_res, cake_cmds, tc_op, tc_arg, cake_failed, cake_obs>>

ppsVars == <<pps, pps_now, pps_prev, pps_read, pps_ret, pps_rated>>

roamVars == <<roam_candidate, roam_cfg, roam_obs, roam_streak, roam_scans>>

coalVars ==
    <<coal, game_mode_until, gov_now, gov_cfg, coal_obs, coal_hist, coal_acts>>

powerVars == <<ps, ps_obs, ps_hist>>

tickVars == <<interface_states, tick_cfg, tick_pc, tick_queue, tick_count,
              tick_left, tick_obs>>

\* everything but the bandwidth smoother and its sample source
restOfTc == <<ppsVars, roamVars, coalVars, powerVars, tickVars>>

\* everything but the packet-rate monitor
restOfPps == <<tcVars, flap, roamVars, coalVars, powerVars, tickVars>>

\* everything but the roam candidate
restOfRoam == <<tcVars, flap, ppsVars, coalVars, powerVars, tickVars>>

\* everything but game mode and the two boolean gates
restOfGates == <<tcVars, flap, ppsVars, roamVars, tickVars>>

\* everything but game mode and the coalescing gate
restOfCoal == <<restOfGates, powerVars>>

\* everything but the governor's interface map
restOfTick == <<tcVars, flap, ppsVars, roamVars, coalVars, powerVars>>

vars == <<tcVars, flap, ppsVars, roamVars, coalVars, powerVars, tickVars>>

---------------------------------------------------------------------------
(* Bounds of the model *)

\* update_bandwidth calls in one behaviour of SpecTc
MaxCalls == 8

\* seconds a behaviour of SpecPps lasts, and the longest gap between samples
MaxTime == 3
MaxDt == 2

\* access points in one scan result
MaxAps == 2

\* the largest roam_hysteresis_ticks configured
MaxHysteresis == 3

\* seconds a behaviour of SpecCoal lasts
MaxGovTime == 6

---------------------------------------------------------------------------
(* Option<T> *)

None == <<>>
Some(x) == <<x>>
IsSome(o) == o # <<>>
Unwrap(o) == o[1]
UnwrapOr(o, d) == IF o = <<>> THEN d ELSE o[1]

(* f64 as fixed point *)
Scale == 1024

\* `x as f64` for an integer x
ToF64(x) == x * Scale

\* f64::round for a non-negative value: nearest integer, halves away from zero
Round(f) == (f + (Scale \div 2)) \div Scale

\* the nearest representable value of the rational n / d  (n >= 0, d > 0)
Nearest(n, d) == (2 * n + d) \div (2 * d)

Abs(x) == IF x < 0 THEN -x ELSE x
Max(a, b) == IF a >= b THEN a ELSE b

---------------------------------------------------------------------------
(* TcManager, tc.rs *)

\* TcManager::new sets window_size: 5 and hysteresis_ticks: 3
window_size == 5
hysteresis_ticks == 3

\* TcManager::default(): new(0.1, 25, 0.20); the tests use alpha 0.5
\* ema_alpha is the pair <<numerator, denominator>>
change_threshold_mbit == 25
change_threshold_pct_num == 20
change_threshold_pct_den == 100
AlphaDefault == <<1, 10>>
AlphaTest == <<1, 2>>

TcManagerNew(alpha) ==
    [ last_bandwidth     |-> None,
      smoothed_bandwidth |-> 0,
      ema_alpha          |-> alpha,
      sample_window      |-> <<>>,
      stable_ticks       |-> 0,
      pending_bandwidth  |-> None ]

\* the mean in place of the median
median_mean(w) ==
    IF Len(w) = 0 THEN None
    ELSE LET Sum[i \in 0..Len(w)] == IF i = 0 THEN 0 ELSE Sum[i - 1] + w[i]
         IN  Some(Sum[Len(w)] \div Len(w))

\* TcManager::median: the middle of the sorted window, the truncated mean of
\* the two middle values for an even count
median(w) ==
    IF Len(w) = 0 THEN None
    ELSE LET sorted == SortSeq(w, LAMBDA a, b : a < b)
             mid    == Len(sorted) \div 2
         IN  IF Len(sorted) % 2 = 0 /\ Len(sorted) > 1
             THEN Some((sorted[mid] + sorted[mid + 1]) \div 2)
             ELSE Some(sorted[mid + 1])

\* a window that is never trimmed
PushWindow_growing(w, s) == Append(w, s)

\* Stage 1: push_back, then pop_front when the window is over window_size
PushWindow(w, s) ==
    LET w1 == Append(w, s)
    IN  IF Len(w1) > window_size THEN Tail(w1) ELSE w1

\* deciding from the second sample on
WarmingUp_two(w) == Len(w) < 2

\* "Need at least 3 samples before making decisions"
WarmingUp(w) == Len(w) < 3

\* Stage 3: EMA on top of the median, seeded by the first median
Ema(alpha, smoothed, m) ==
    IF smoothed = 0
    THEN ToF64(m)
    ELSE Nearest(ToF64(m) * alpha[1] + smoothed * (alpha[2] - alpha[1]),
                 alpha[2])

\* considering every change, however small
ShouldConsider_always(last, target) == TRUE

\* thresholds that have to be exceeded, not just met
ShouldConsider_strict(last, target) ==
    IF IsSome(last)
    THEN LET abs_diff == Abs(target - Unwrap(last))
         IN  \/ abs_diff > change_threshold_mbit
             \/ abs_diff * change_threshold_pct_den
                    > change_threshold_pct_num * Unwrap(last)
    ELSE TRUE

\* Stage 4: is the change from the committed bandwidth significant
ShouldConsider(last, target) ==
    IF IsSome(last)
    THEN LET abs_diff == Abs(target - Unwrap(last))
         IN  \/ abs_diff >= change_threshold_mbit
             \/ abs_diff * change_threshold_pct_den
                    >= change_threshold_pct_num * Unwrap(last)
    ELSE TRUE

\* a reset whenever the target is not the pending value
DirectionChange_on_difference(pending, last, target) ==
    IsSome(pending) /\ Unwrap(pending) # target

\* no reset on a reversal
DirectionChange_never(pending, last, target) == FALSE

\* Stage 5: pending and target lie on opposite sides of the committed value
DirectionChange(pending, last, target) ==
    IF IsSome(pending)
    THEN LET pending_vs_last == Unwrap(pending) - UnwrapOr(last, 0)
             target_vs_last  == target - UnwrapOr(last, 0)
         IN  \/ (pending_vs_last > 0 /\ target_vs_last < 0)
             \/ (pending_vs_last < 0 /\ target_vs_last > 0)
    ELSE FALSE

\* the stability counter after stage 5
NextStableTicks(t, target) ==
    IF DirectionChange(t.pending_bandwidth, t.last_bandwidth, target) THEN 1
    ELSE IF IsSome(t.pending_bandwidth) THEN t.stable_ticks + 1
    ELSE 1

\* approval one tick late
Approved_late(ticks) == ticks > hysteresis_ticks

\* the approval test that ends update_bandwidth
Approved(ticks) == ticks >= hysteresis_ticks

\* keeping the count and the pending value when a change is approved
FireReset_keeping(t, ticks, target) ==
    [t EXCEPT !.stable_ticks = ticks - 1, !.pending_bandwidth = Some(target)]

\* what approval does to the gate: stable_ticks = 0, pending_bandwidth = None
FireReset(t, ticks, target) ==
    [t EXCEPT !.stable_ticks = 0, !.pending_bandwidth = None]

\* taking a zero reading as a sample
RejectsSample_never(current_speed_mbit) == FALSE

\* `if current_speed_mbit == 0 { return false; }`
RejectsSample(current_speed_mbit) == current_speed_mbit = 0

\* TcManager::update_bandwidth: the manager after the call, the value
\* returned, and the median the call computed (None when it returned early)
update_bandwidth(t, current_speed_mbit) ==
    IF RejectsSample(current_speed_mbit)
    THEN [tc |-> t, ret |-> FALSE, median |-> None]
    ELSE
    LET w  == PushWindow(t.sample_window, current_speed_mbit)
        t1 == [t EXCEPT !.sample_window = w]
    IN  IF WarmingUp(w)
        THEN [tc |-> t1, ret |-> FALSE, median |-> None]
        ELSE
        LET median_mbit == Unwrap(median(w))
            smoothed    == Ema(t.ema_alpha, t.smoothed_bandwidth, median_mbit)
            target_mbit == Round(smoothed)
            t2          == [t1 EXCEPT !.smoothed_bandwidth = smoothed]
        IN  IF ~ShouldConsider(t.last_bandwidth, target_mbit)
            THEN [tc     |-> [t2 EXCEPT !.stable_ticks = 0,
                                        !.pending_bandwidth = None],
                  ret    |-> FALSE,
                  median |-> Some(median_mbit)]
            ELSE
            LET ticks == NextStableTicks(t2, target_mbit)
            IN  IF Approved(ticks)
                THEN [tc     |-> FireReset(t2, ticks, target_mbit),
                      ret    |-> TRUE,
                      median |-> Some(median_mbit)]
                ELSE [tc     |-> [t2 EXCEPT !.stable_ticks = ticks,
                                            !.pending_bandwidth =
                                                Some(target_mbit)],
                      ret    |-> FALSE,
                      median |-> Some(median_mbit)]

\* #[cfg(test)] get_smoothed_mbit
get_smoothed_mbit(t) == Round(t.smoothed_bandwidth)

\* What running one tc command can do: exit 0, exit non-zero, or fail to run
CmdOutcomes == {"ok", "nonzero", "spawn_err"}

\* truncating the smoothed bandwidth where the code rounds it
CakeBandwidth_truncated(t) == Max(t.smoothed_bandwidth \div Scale, 1)

\* the bandwidth apply_cake puts in both commands
CakeBandwidth(t) == Max(Round(t.smoothed_bandwidth), 1)

\* the commands apply_cake runs, given what each would do: the primary
\* profile, and the fallback profile when the primary exits non-zero
CakeCommands(t, primary, fallback) ==
    IF primary = "nonzero"
    THEN << <<"diffserv4", CakeBandwidth(t), primary>>,
            <<"besteffort", CakeBandwidth(t), fallback>> >>
    ELSE << <<"diffserv4", CakeBandwidth(t), primary>> >>

\* committing whatever the fallback command did
CakeSucceeds_ignoring_fallback(primary, fallback) ==
    primary \in {"ok", "nonzero"}

\* whether apply_cake reaches `self.last_bandwidth = Some(bandwidth_mbit)`
CakeSucceeds(primary, fallback) ==
    \/ primary = "ok"
    \/ primary = "nonzero" /\ fallback = "ok"

\* TcManager::apply_cake: the manager after the call and Ok / Err
apply_cake(t, primary, fallback) ==
    IF CakeSucceeds(primary, fallback)
    THEN [tc  |-> [t EXCEPT !.last_bandwidth = Some(CakeBandwidth(t))],
          res |-> "ok"]
    ELSE [tc |-> t, res |-> "err"]

---------------------------------------------------------------------------
(* PpsMonitor, stats.rs.  NetStats is the pair <<rx_packets, tx_packets>>. *)

PpsAlpha == <<3, 10>>

PpsMonitorNew ==
    [ last_stats       |-> None,
      last_sample_time |-> None,
      current_pps      |-> 0,
      smoothed_pps     |-> 0,
      ema_alpha        |-> PpsAlpha ]

\* NetStats::total_packets
total_packets(stats) == stats[1] + stats[2]

\* a subtraction that does not saturate
SaturatingSub_plain(a, b) == a - b

\* u64::saturating_sub
SaturatingSub(a, b) == IF a >= b THEN a - b ELSE 0

\* (packet_delta as f64 / time_delta).round() as u64
RawRate(packet_delta, time_delta) ==
    Round(Nearest(ToF64(packet_delta), time_delta))

\* the EMA of the packet rate, seeded while smoothed_pps is 0.0
PpsEma(alpha, smoothed, current_pps) ==
    IF smoothed = 0
    THEN ToF64(current_pps)
    ELSE Nearest(ToF64(current_pps) * alpha[1] + smoothed * (alpha[2] - alpha[1]),
                 alpha[2])

\* stamping the sample time before the counters are read
FailedRead_stamping(p, now) ==
    [pps |-> [p EXCEPT !.last_sample_time = Some(now)],
     ret |-> Round(p.smoothed_pps)]

\* `None => return self.smoothed_pps.round() as u64`
FailedRead(p, now) == [pps |-> p, ret |-> Round(p.smoothed_pps)]

\* PpsMonitor::sample at instant now, NetStats::read having returned `read`:
\* the monitor after the call and the value returned
sample(p, now, read) ==
    IF read = None
    THEN FailedRead(p, now)
    ELSE
    LET stats == Unwrap(read)
        time_delta == now - Unwrap(p.last_sample_time)
        p1 == IF /\ IsSome(p.last_stats)
                 /\ IsSome(p.last_sample_time)
                 /\ time_delta > 0
              THEN LET packet_delta ==
                           SaturatingSub(total_packets(stats),
                                         total_packets(Unwrap(p.last_stats)))
                       current == RawRate(packet_delta, time_delta)
                   IN  [p EXCEPT !.current_pps = current,
                                 !.smoothed_pps =
                                     PpsEma(p.ema_alpha, p.smoothed_pps, current)]
              ELSE p
        p2 == [p1 EXCEPT !.last_stats = Some(stats),
                         !.last_sample_time = Some(now)]
    IN  [pps |-> p2, ret |-> Round(p2.smoothed_pps)]

\* the cumulative counters sysfs can show, and a failed read
RxSet == {0, 100, 500}
TxSet == {0, 50}
ReadSet == {None} \cup {Some(<<rx, tx>>) : rx \in RxSet, tx \in TxSet}

PpsInit0 ==
    /\ pps = PpsMonitorNew
    /\ pps_now = 0
    /\ pps_prev = PpsMonitorNew
    /\ pps_read = None
    /\ pps_ret = 0
    /\ pps_rated = 0

\* whether a sample call gets as far as computing a rate: the read
\* succeeded, a previous sample is stored and time has passed since
ProducesRate(p, now, read) ==
    /\ IsSome(read)
    /\ IsSome(p.last_stats)
    /\ IsSome(p.last_sample_time)
    /\ now - Unwrap(p.last_sample_time) > 0

\* governor.rs:140  state.pps_monitor.sample(&interface), dt seconds after
\* the previous call
PpsSample(dt, read) ==
    /\ pps_now + dt <= MaxTime
    /\ pps_now' = pps_now + dt
    /\ LET r == sample(pps, pps_now + dt, read)
       IN  /\ pps' = r.pps
           /\ pps_ret' = r.ret
    /\ pps_prev' = pps
    /\ pps_read' = read
    /\ pps_rated' = IF ProducesRate(pps, pps_now + dt, read)
                    THEN pps_rated + 1
                    ELSE pps_rated
    /\ UNCHANGED restOfPps

---------------------------------------------------------------------------
(* Band steering, governor.rs step 6.  An AccessPoint is the record        *)
(* [bssid, ssid, signal_strength, band]; band is 2, 5 or 6.                *)

\* WifiConfig: band_bias_5ghz, band_bias_6ghz, min_signal_dbm
band_bias_5ghz == 10
band_bias_6ghz == 25
min_signal_dbm == 50

\* AccessPoint::score(bias_5ghz, bias_6ghz)
score(ap, bias_5, bias_6) ==
    ap.signal_strength
        + (IF ap.band = 5 THEN bias_5 ELSE IF ap.band = 6 THEN bias_6 ELSE 0)

ApScore(ap) == score(ap, band_bias_5ghz, band_bias_6ghz)

\* a filter that forgets the SSID
Qualifies_any_ssid(ap, current_ap) ==
    /\ ap.bssid # current_ap.bssid
    /\ ap.signal_strength >= min_signal_dbm

\* the closure given to filter
Qualifies(ap, current_ap) ==
    /\ ap.ssid = current_ap.ssid
    /\ ap.bssid # current_ap.bssid
    /\ ap.signal_strength >= min_signal_dbm

\* keeping the earlier of two equal elements
KeepLater_strict(key, best_key) == key > best_key

\* Iterator::max_by_key keeps the later of two elements unless the earlier
\* one compares greater
KeepLater(key, best_key) == key >= best_key

\* .max_by_key(|ap| ap.score(bias_5, bias_6)) over a sequence
MaxByScore(aps) ==
    IF aps = <<>> THEN None
    ELSE LET best[i \in 1..Len(aps)] ==
                 IF i = 1 THEN aps[1]
                 ELSE IF KeepLater(ApScore(aps[i]), ApScore(best[i - 1]))
                      THEN aps[i]
                      ELSE best[i - 1]
         IN  Some(best[Len(aps)])

\* access_points.iter().filter(..).max_by_key(..)
BestCandidate(access_points, current_ap) ==
    MaxByScore(SelectSeq(access_points, LAMBDA ap : Qualifies(ap, current_ap)))

NewRoamCandidate(ap) ==
    [bssid |-> ap.bssid, score |-> ApScore(ap), consecutive_ticks |-> 1]

\* the hysteresis update when an accumulator exists
UpdateRoam(roam, best) ==
    IF roam.bssid = best.bssid
    THEN [roam EXCEPT !.consecutive_ticks = @ + 1, !.score = ApScore(best)]
    ELSE NewRoamCandidate(best)

\* should_trigger: an accumulator seen for the first time never triggers
ShouldTrigger(candidate, best, hysteresis) ==
    IF IsSome(candidate)
    THEN UpdateRoam(Unwrap(candidate), best).consecutive_ticks >= hysteresis
    ELSE FALSE

\* leaving the accumulator as it was after request_scan
FiredCandidate_kept(candidate) == candidate

\* `state.roam_candidate = None` that follows request_scan
FiredCandidate(candidate) == None

\* leaving the accumulator as it is when nothing better is around
ResetCandidate_keeping(candidate) == candidate

\* `state.roam_candidate = None` of the two else branches
ResetCandidate(candidate) == None

\* the body of `if let Ok(access_points) = get_access_points(..)`: the
\* accumulator afterwards, whether request_scan was called, and best
BandSteering(candidate, current_ap, access_points, hysteresis) ==
    LET best == BestCandidate(access_points, current_ap)
    IN  IF best = None
        THEN [roam_candidate |-> ResetCandidate(candidate),
              scan |-> FALSE, best |-> best]
        ELSE
        IF ApScore(Unwrap(best)) > ApScore(current_ap)
        THEN IF ShouldTrigger(candidate, Unwrap(best), hysteresis)
             THEN [roam_candidate |-> FiredCandidate(candidate),
                   scan |-> TRUE, best |-> best]
             ELSE [roam_candidate |->
                       Some(IF IsSome(candidate)
                            THEN UpdateRoam(Unwrap(candidate), Unwrap(best))
                            ELSE NewRoamCandidate(Unwrap(best))),
                   scan |-> FALSE, best |-> best]
        ELSE [roam_candidate |-> ResetCandidate(candidate),
              scan |-> FALSE, best |-> best]

\* the access points around: the associated one (score 70), two better
\* ones that tie (85), one that equals it (70), one of another network,
\* and a 6 GHz one below the minimum signal (score 74)
ApC == [bssid |-> "c", ssid |-> "home", signal_strength |-> 60, band |-> 5]
ApA == [bssid |-> "a", ssid |-> "home", signal_strength |-> 75, band |-> 5]
ApB == [bssid |-> "b", ssid |-> "home", signal_strength |-> 60, band |-> 6]
ApD == [bssid |-> "d", ssid |-> "home", signal_strength |-> 70, band |-> 2]
ApE == [bssid |-> "e", ssid |-> "other", signal_strength |-> 90, band |-> 5]
ApW == [bssid |-> "w", ssid |-> "home", signal_strength |-> 49, band |-> 6]
ApSet == {ApC, ApA, ApB, ApD, ApE, ApW}

\* a scan result: up to MaxAps access points, each listed once, in any order
ApLists ==
    UNION { { l \in [1..n -> ApSet] : \A i, j \in 1..n : i # j => l[i] # l[j] }
            : n \in 0..MaxAps }

\* d.active_ap: none, or one of two associations
ActiveApSet == {None, Some(ApC), Some(ApA)}

\* no scan requested yet: since is the number of evaluations after the last
\* request, gap the number of evaluations from the request before it to the
\* last one, both counted up to MaxHysteresis + 1
NoScans == [since |-> None, gap |-> None]

RoamObsNone ==
    [evaluated |-> FALSE, current |-> None, aps |-> <<>>, best |-> None,
     scan |-> FALSE, prev |-> None]

RoamInitWith(enabled, ticks) ==
    /\ roam_candidate = None
    /\ roam_cfg \in [band_steering_enabled : enabled,
                     roam_hysteresis_ticks : ticks]
    /\ roam_obs = RoamObsNone
    /\ roam_streak = [bssid |-> "", n |-> 0]
    /\ roam_scans = NoScans

\* the scan requests after one more evaluation of band steering
NoteScan(r, scan) ==
    LET n == IF IsSome(r.since)
             THEN Some(IF Unwrap(r.since) < MaxHysteresis + 1
                       THEN Unwrap(r.since) + 1 ELSE MaxHysteresis + 1)
             ELSE None
    IN  IF scan THEN [since |-> Some(0), gap |-> n]
        ELSE [r EXCEPT !.since = n]

\* the streak after an evaluation: it starts when a strictly better leader
\* is found with the accumulator empty, grows while the same BSSID leads,
\* and ends otherwise
NextStreak(streak, candidate, current_ap, best) ==
    IF IsSome(best) /\ ApScore(Unwrap(best)) > ApScore(current_ap)
    THEN IF candidate = None
         THEN [bssid |-> Unwrap(best).bssid, n |-> 1]
         ELSE IF streak.n >= 1 /\ streak.bssid = Unwrap(best).bssid
              THEN [streak EXCEPT !.n = @ + 1]
              ELSE [bssid |-> "", n |-> 0]
    ELSE [bssid |-> "", n |-> 0]

\* step 6 of one tick for one interface: active_ap as enumerated, aps the
\* result of get_access_points (None when it failed)
RoamStep(active_ap, aps) ==
    /\ IF /\ roam_cfg.band_steering_enabled
          /\ IsSome(active_ap)
          /\ IsSome(aps)
       THEN LET r == BandSteering(roam_candidate, Unwrap(active_ap),
                                  Unwrap(aps), roam_cfg.roam_hysteresis_ticks)
            IN  /\ roam_candidate' = r.roam_candidate
                /\ roam_obs' = [evaluated |-> TRUE, current |-> active_ap,
                                aps |-> Unwrap(aps), best |-> r.best,
                                scan |-> r.scan, prev |-> roam_candidate]
                /\ roam_streak' = NextStreak(roam_streak, roam_candidate,
                                             Unwrap(active_ap), r.best)
       ELSE /\ roam_candidate' = roam_candidate
            /\ roam_obs' = [RoamObsNone EXCEPT !.current = active_ap,
                                               !.prev = roam_candidate]
            /\ roam_streak' = roam_streak
    /\ UNCHANGED <<roam_cfg, restOfRoam>>

RoamTick(active_ap, aps) ==
    /\ RoamStep(active_ap, aps)
    /\ UNCHANGED roam_scans

\* the same step with the scan requests counted
SteerTick(active_ap, aps) ==
    /\ RoamStep(active_ap, aps)
    /\ roam_scans' = IF roam_obs'.evaluated
                     THEN NoteScan(roam_scans, roam_obs'.scan)
                     ELSE roam_scans

---------------------------------------------------------------------------
(* Game mode and the coalescing gate, governor.rs steps 3 and 5.  The CPU  *)
(* load is a percentage.                                                   *)

game_mode_pps_threshold == 200
game_mode_cooldown_secs == 2
cpu_coalescing_threshold == 50

\* a low packet rate ending game mode at once
GameModeDetect_clearing(until, pps_value, now) ==
    IF pps_value > game_mode_pps_threshold
    THEN Some(now + game_mode_cooldown_secs)
    ELSE None

\* step 3: a packet rate above the threshold sets the deadline
GameModeDetect(until, pps_value, now) ==
    IF pps_value > game_mode_pps_threshold
    THEN Some(now + game_mode_cooldown_secs)
    ELSE until

\* game_mode_until.map(|until| Instant::now() < until).unwrap_or(false)
InGame(until, now) == IF IsSome(until) THEN now < Unwrap(until) ELSE FALSE

HighCpu(cpu_load) == cpu_load > cpu_coalescing_threshold

\* never coalescing in game mode, whatever the CPU load
ShouldCoalesce_latency_first(in_game, high_cpu) == ~in_game

\* should_coalesce
ShouldCoalesce(in_game, high_cpu) ==
    IF in_game /\ high_cpu THEN TRUE
    ELSE IF in_game THEN FALSE
    ELSE TRUE

\* EthtoolManager::enable_coalescing / disable_coalescing: the ethtool
\* command's outcome is dropped and Ok(()) returned
SetCoalescing(outcome) == "Ok"

\* applying only after three stable ticks
CoalApproved_late(ticks) == ticks >= 3

\* "Apply after 2 stable ticks (4 seconds)"
CoalApproved(ticks) == ticks >= 2

\* leaving the applied state as it was after the ethtool call
CoalCommit_forgotten(c, should_coalesce) ==
    [c EXCEPT !.pending_coalescing = None, !.coalescing_stable_ticks = 0]

\* the three assignments that follow the ethtool call
CoalCommit(c, should_coalesce) ==
    [coalescing_enabled      |-> should_coalesce,
     pending_coalescing      |-> None,
     coalescing_stable_ticks |-> 0]

\* the hysteresis block of step 5: the gate afterwards, whether ethtool was
\* run, and what the EthtoolManager call returned
CoalescingGate(c, should_coalesce, outcome) ==
    IF should_coalesce # c.coalescing_enabled
    THEN LET ticks == IF c.pending_coalescing = Some(should_coalesce)
                      THEN c.coalescing_stable_ticks + 1
                      ELSE 1
         IN  IF CoalApproved(ticks)
             THEN [coal   |-> CoalCommit(c, should_coalesce),
                   fired  |-> TRUE,
                   result |-> SetCoalescing(outcome)]
             ELSE [coal   |-> [c EXCEPT
                                 !.pending_coalescing = Some(should_coalesce),
                                 !.coalescing_stable_ticks = ticks],
                   fired  |-> FALSE,
                   result |-> "none"]
    ELSE [coal   |-> [c EXCEPT !.pending_coalescing = None,
                               !.coalescing_stable_ticks = 0],
          fired  |-> FALSE,
          result |-> "none"]

\* what pps_monitor.sample and cpu_monitor.sample return in a tick
PpsValues == {0, 200, 201}
CpuLoads == {10, 50, 90}

CoalNew ==
    [coalescing_enabled |-> FALSE, pending_coalescing |-> None,
     coalescing_stable_ticks |-> 0]

CoalObsNone ==
    [stepped |-> FALSE, cpu_load |-> 0, should_coalesce |-> FALSE,
     fired |-> FALSE, outcome |-> "none", prev |-> CoalNew,
     pps |-> 0, prev_until |-> None]

\* no ethtool call issued yet: last and prev are the values of the two most
\* recent actuations, gap the number of evaluations from prev to last, and
\* since the number of evaluations after last
CoalActsNone == [last |-> None, prev |-> None, gap |-> 0, since |-> 0]

\* the actuations after one more evaluation of the gate
NoteActuation(a, fired, value) ==
    IF fired
    THEN [last |-> Some(value), prev |-> a.last,
          gap |-> IF IsSome(a.last) THEN a.since + 1 ELSE 0, since |-> 0]
    ELSE [a EXCEPT !.since = IF IsSome(a.last) THEN a.since + 1 ELSE 0]

\* the evaluations a gate history keeps: the newest last, at most n
KeepLast(h, e, n) ==
    LET h1 == Append(h, e)
    IN  IF Len(h1) > n THEN Tail(h1) ELSE h1

CoalInitWith(game, coalescing) ==
    /\ coal = CoalNew
    /\ coal_hist = <<>>
    /\ coal_acts = CoalActsNone
    /\ game_mode_until = None
    /\ gov_now = 0
    /\ gov_cfg \in [game_mode_enabled : game, cpu_coalescing_enabled : coalescing]
    /\ coal_obs = CoalObsNone

\* steps 3 and 5 of one tick for one interface, dt seconds after the
\* previous tick
CoalStep(dt, pps_value, cpu_load, outcome) ==
    /\ gov_now + dt <= MaxGovTime
    /\ gov_now' = gov_now + dt
    /\ LET until == IF gov_cfg.game_mode_enabled
                    THEN GameModeDetect(game_mode_until, pps_value, gov_now')
                    ELSE game_mode_until
           should == ShouldCoalesce(InGame(until, gov_now'), HighCpu(cpu_load))
           r == CoalescingGate(coal, should, outcome)
       IN  /\ game_mode_until' = until
           /\ IF gov_cfg.cpu_coalescing_enabled
              THEN /\ coal' = r.coal
                   /\ coal_hist' =
                          KeepLast(coal_hist,
                                   [desired |-> should,
                                    applied |-> coal.coalescing_enabled,
                                    fired   |-> r.fired], 2)
                   /\ coal_acts' = NoteActuation(coal_acts, r.fired, should)
                   /\ coal_obs' = [stepped |-> TRUE, cpu_load |-> cpu_load,
                                   should_coalesce |-> should,
                                   fired |-> r.fired,
                                   outcome |-> IF r.fired THEN outcome
                                               ELSE "none",
                                   prev |-> coal,
                                   pps |-> pps_value,
                                   prev_until |-> game_mode_until]
              ELSE /\ coal' = coal
                   /\ coal_hist' = coal_hist
                   /\ coal_acts' = coal_acts
                   /\ coal_obs' = [CoalObsNone EXCEPT
                                      !.cpu_load = cpu_load,
                                      !.prev = coal,
                                      !.pps = pps_value,
                                      !.prev_until = game_mode_until]
    /\ UNCHANGED gov_cfg

CoalTick(dt, pps_value, cpu_load, outcome) ==
    /\ CoalStep(dt, pps_value, cpu_load, outcome)
    /\ UNCHANGED restOfCoal

---------------------------------------------------------------------------
(* The power-save gate, governor.rs step 5b *)

\* InterfaceState::new: power save never applied
PowerNew ==
    [power_save_enabled |-> None, pending_power_save |-> None,
     power_save_stable_ticks |-> 0]

\* applying after two stable ticks
PowerApproved_two(ticks) == ticks >= 2

\* "Apply after 3 stable ticks (6 seconds)"
PowerApproved(ticks) == ticks >= 3

\* recording the new state whatever the toggle returned
PowerCommits_unchecked(found, toggle) == found

\* power_save_enabled is assigned under `if let Some(wifi_ifc)` and
\* `if let Ok(_)`: a handle was found and the toggle returned Ok
PowerCommits(found, toggle) == found /\ toggle = "ok"

\* the hysteresis block of step 5b: the gate afterwards, whether it fired,
\* and whether enable_power_save / disable_power_save was called
PowerSaveGate(p, should_enable, found, toggle) ==
    IF p.power_save_enabled # Some(should_enable)
    THEN LET ticks == IF p.pending_power_save = Some(should_enable)
                      THEN p.power_save_stable_ticks + 1
                      ELSE 1
         IN  IF PowerApproved(ticks)
             THEN [ps     |-> [power_save_enabled |->
                                   IF PowerCommits(found, toggle)
                                   THEN Some(should_enable)
                                   ELSE p.power_save_enabled,
                               pending_power_save      |-> None,
                               power_save_stable_ticks |-> 0],
                   fired  |-> TRUE,
                   called |-> found]
             ELSE [ps     |-> [p EXCEPT
                                 !.pending_power_save = Some(should_enable),
                                 !.power_save_stable_ticks = ticks],
                   fired  |-> FALSE,
                   called |-> FALSE]
    ELSE [ps     |-> [p EXCEPT !.pending_power_save = None,
                               !.power_save_stable_ticks = 0],
          fired  |-> FALSE,
          called |-> FALSE]

\* what enable_power_save / disable_power_save can return
ToggleOutcomes == {"ok", "err"}

PowerObsNone ==
    [stepped |-> FALSE, should_enable |-> FALSE, fired |-> FALSE,
     found |-> FALSE, toggle |-> "none", prev |-> PowerNew]

PowerInit0 ==
    /\ ps = PowerNew
    /\ ps_obs = PowerObsNone
    /\ ps_hist = <<>>

\* step 5b of one tick for one interface
PowerStep(should_enable, found, toggle) ==
    LET r == PowerSaveGate(ps, should_enable, found, toggle)
    IN  /\ ps' = r.ps
        /\ ps_obs' = [stepped |-> TRUE, should_enable |-> should_enable,
                      fired |-> r.fired,
                      found |-> r.fired /\ found,
                      toggle |-> IF r.called THEN toggle ELSE "none",
                      prev |-> ps]
        /\ ps_hist' = KeepLast(ps_hist,
                               [desired |-> Some(should_enable),
                                applied |-> ps.power_save_enabled,
                                fired   |-> r.fired], 3)

\* steps 3, 5 and 5b of one tick for one interface
GatesTick(dt, pps_value, cpu_load, outcome, should_enable, found, toggle) ==
    /\ CoalStep(dt, pps_value, cpu_load, outcome)
    /\ PowerStep(should_enable, found, toggle)
    /\ UNCHANGED restOfGates

---------------------------------------------------------------------------
(* Governor::tick as a whole, governor.rs.  An InterfaceState keeps the    *)
(* three coalescing fields in the record coal and the three power-save     *)
(* fields in the record ps, as the gates above take them.                  *)

tick_rate_secs == 2

\* cake_overhead_factor, 0.85, as a fraction
cake_overhead_num == 85
cake_overhead_den == 100

\* InterfaceState::new
InterfaceStateNew(config) ==
    [pps_monitor     |-> PpsMonitorNew,
     tc_manager      |-> TcManagerNew(config.cake_ema_alpha),
     roam_candidate  |-> None,
     game_mode_until |-> None,
     coal            |-> CoalNew,
     ps              |-> PowerNew]

\* forgetting every interface the current enumeration did not activate
GetOrCreate_evicting(states, interface, config) ==
    [n \in {interface} |->
        IF n \in DOMAIN states THEN states[n] ELSE InterfaceStateNew(config)]

\* `if !self.interface_states.contains_key(&interface) { insert(..) }`
GetOrCreate(states, interface, config) ==
    IF interface \in DOMAIN states
    THEN states
    ELSE [n \in DOMAIN states \cup {interface} |->
             IF n = interface THEN InterfaceStateNew(config) ELSE states[n]]

\* `devices.into_iter().filter(|d| d.state == DeviceState::Activated)`
Activated(devices) == SelectSeq(devices, LAMBDA d : d.activated)

\* the interface names of a device list
Names(devices) == { devices[i].interface : i \in 1..Len(devices) }

\* (bitrate / 1000) as f64 * cake_overhead_factor, truncated to u32
ScaledMbit(bitrate) ==
    ((bitrate \div 1000) * cake_overhead_num) \div cake_overhead_den

\* also propagating a failed apply_cake with `?`
Propagates_apply_cake(call) ==
    call \in {"get_wireless_devices", "apply_cake"}

\* which external call's failure leaves tick through `?`: only
\* get_wireless_devices; the others are under `let _ =`, `if let Ok`,
\* `if let Some` or return a fallback value
Propagates(call) == call = "get_wireless_devices"

\* a step made a call whose failure leaves the tick
StepAborts(calls) == \E c \in calls : c[2] # "ok" /\ Propagates(c[1])

\* step 3 for one interface: the state afterwards and the external calls
\* made, each with its outcome
TickGameMode(st, config, ext, now) ==
    IF config.game_mode_enabled
    THEN LET r == sample(st.pps_monitor, now, ext.read)
         IN  [state |-> [st EXCEPT
                           !.pps_monitor = r.pps,
                           !.game_mode_until = GameModeDetect(@, r.ret, now)],
              calls |-> {<<"read_counters",
                           IF ext.read = None THEN "err" ELSE "ok">>}]
    ELSE [state |-> st, calls |-> {}]

\* step 4
TickBreathingCake(st, config, dev, ext) ==
    IF config.breathing_cake_enabled /\ dev.bitrate > 0
    THEN LET u == update_bandwidth(st.tc_manager, ScaledMbit(dev.bitrate))
         IN  IF u.ret
             THEN LET a == apply_cake(u.tc, ext.qos[1], ext.qos[2])
                  IN  [state |-> [st EXCEPT !.tc_manager = a.tc],
                       calls |-> {<<"apply_cake", a.res>>}]
             ELSE [state |-> [st EXCEPT !.tc_manager = u.tc], calls |-> {}]
    ELSE [state |-> st, calls |-> {}]

\* step 5
TickCoalescing(st, config, ext, cpu_load, now) ==
    IF config.cpu_coalescing_enabled
    THEN LET should == ShouldCoalesce(InGame(st.game_mode_until, now),
                                      HighCpu(cpu_load))
             g == CoalescingGate(st.coal, should, ext.ethtool)
         IN  [state |-> [st EXCEPT !.coal = g.coal],
              calls |-> IF g.fired
                        THEN {<<"ethtool",
                                IF ext.ethtool = "ok" THEN "ok" ELSE "err">>}
                        ELSE {}]
    ELSE [state |-> st, calls |-> {}]

\* step 5b
TickPowerSave(st, ext) ==
    LET p == PowerSaveGate(st.ps, ext.should_enable, ext.found, ext.toggle)
    IN  [state |-> [st EXCEPT !.ps = p.ps],
         calls |-> (IF p.fired
                    THEN {<<"find_interface",
                            IF ext.found THEN "ok" ELSE "err">>}
                    ELSE {})
                   \cup
                   (IF p.called
                    THEN {<<"set_power_save", ext.toggle>>}
                    ELSE {})]

\* step 6
TickBandSteering(st, config, dev, ext) ==
    IF config.band_steering_enabled /\ IsSome(dev.active_ap)
    THEN IF ext.aps = None
         THEN [state |-> st, calls |-> {<<"get_access_points", "err">>}]
         ELSE LET b == BandSteering(st.roam_candidate, Unwrap(dev.active_ap),
                                    Unwrap(ext.aps),
                                    config.roam_hysteresis_ticks)
              IN  [state |-> [st EXCEPT !.roam_candidate = b.roam_candidate],
                   calls |-> {<<"get_access_points", "ok">>}
                             \cup
                             (IF b.scan
                              THEN {<<"request_scan", ext.scan>>}
                              ELSE {})]
    ELSE [state |-> st, calls |-> {}]

\* the coalescing gate evaluated before the game-mode check
Steps_coalescing_first ==
    <<"coalescing", "game_mode", "breathing_cake", "power_save",
      "band_steering">>

\* the steps of the loop body, in order
Steps ==
    <<"game_mode", "breathing_cake", "coalescing", "power_save",
      "band_steering">>

\* one named step
RunStep(name, st, config, dev, ext, cpu_load, now) ==
    CASE name = "game_mode"      -> TickGameMode(st, config, ext, now)
      [] name = "breathing_cake" -> TickBreathingCake(st, config, dev, ext)
      [] name = "coalescing"     -> TickCoalescing(st, config, ext, cpu_load,
                                                   now)
      [] name = "power_save"     -> TickPowerSave(st, ext)
      [] name = "band_steering"  -> TickBandSteering(st, config, dev, ext)

\* the loop body from step i on: acc holds the state so far, the steps
\* run, the calls made, and whether a failure has left the tick
RECURSIVE RunSteps(_, _, _, _, _, _, _)
RunSteps(i, acc, config, dev, ext, cpu_load, now) ==
    IF i > Len(Steps) \/ acc.aborted
    THEN acc
    ELSE LET r == RunStep(Steps[i], acc.state, config, dev, ext, cpu_load,
                          now)
         IN  RunSteps(i + 1,
                      [state   |-> r.state,
                       ran     |-> acc.ran \cup {Steps[i]},
                       trace   |-> Append(acc.trace, Steps[i]),
                       calls   |-> acc.calls \cup r.calls,
                       aborted |-> StepAborts(r.calls)],
                      config, dev, ext, cpu_load, now)

\* the body of `for .. in device_infos` for one interface with state st
Turn(st, config, dev, ext, cpu_load, now) ==
    RunSteps(1, [state |-> st, ran |-> {}, trace |-> <<>>, calls |-> {},
                 aborted |-> FALSE],
             config, dev, ext, cpu_load, now)

\* the wireless interfaces NetworkManager may list
InterfaceNames == {"wlan0", "wlan1"}

\* a device as get_wireless_devices reports it: associated to ApC at
\* 118 Mbit/s when activated
Device(name, activated) ==
    [interface |-> name, activated |-> activated, bitrate |-> 118000,
     active_ap |-> Some(ApC)]

\* the lists get_wireless_devices can return: each interface at most once,
\* activated or not, in any order
DeviceLists ==
    UNION { { l \in [1..n -> { Device(nm, a) : nm \in InterfaceNames,
                                               a \in BOOLEAN }] :
                \A i, j \in 1..n : i # j => l[i].interface # l[j].interface }
            : n \in 0..Cardinality(InterfaceNames) }

\* the configuration the governor runs with: every feature on
TickConfig ==
    [game_mode_enabled |-> TRUE, breathing_cake_enabled |-> TRUE,
     cpu_coalescing_enabled |-> TRUE, band_steering_enabled |-> TRUE,
     roam_hysteresis_ticks |-> 2, cake_ema_alpha |-> AlphaDefault]

\* the packet counters of an interface at instant now: wlan1 carries 300
\* packets a second, the others none
Counters(name, now) == IF name = "wlan1" THEN <<300 * now, 0>> ELSE <<0, 0>>

\* what the environment answers when nothing fails: idle counters, on
\* battery, one better access point in sight
QuietExt ==
    [read |-> Some(<<0, 0>>), qos |-> <<"ok", "ok">>, ethtool |-> "ok",
     should_enable |-> TRUE, found |-> TRUE, toggle |-> "ok",
     aps |-> Some(<<ApA>>), scan |-> "ok"]

\* the outcomes of the two tc commands that differ for apply_cake
QosOutcomes ==
    {<<"ok", "ok">>, <<"nonzero", "ok">>, <<"nonzero", "nonzero">>,
     <<"spawn_err", "ok">>}

\* the environments of one loop body: the counters read and the access
\* point enumeration succeed or fail, and each call a gate makes on
\* firing succeeds or fails
TurnExts(st, config, dev, cpu_load, now) ==
    UNION {
        LET base  == [QuietExt EXCEPT !.read = rd, !.aps = ap]
            quiet == Turn(st, config, dev, base, cpu_load, now)
            made  == { c[1] : c \in quiet.calls }
        IN  { [base EXCEPT !.qos = q, !.ethtool = e, !.found = f,
                           !.toggle = t, !.scan = sc] :
                q  \in (IF "apply_cake" \in made
                        THEN QosOutcomes ELSE {<<"ok", "ok">>}),
                e  \in (IF "ethtool" \in made
                        THEN {"ok", "err"} ELSE {"ok"}),
                f  \in (IF "find_interface" \in made
                        THEN BOOLEAN ELSE {TRUE}),
                t  \in (IF "set_power_save" \in made
                        THEN ToggleOutcomes ELSE {"ok"}),
                sc \in (IF "request_scan" \in made
                        THEN {"ok", "err"} ELSE {"ok"}) }
        : rd \in {None, Some(Counters(dev.interface, now))},
          ap \in {None, QuietExt.aps} }

\* `if let Err(e) = self.tick().await { warn!(..) }` inside `loop`: the
\* loop goes on whatever tick returned
RunAfterTick(result) == "running"

\* HashMap::new()
NoInterfaces == [n \in {} |-> None]

TickObsNone ==
    [result |-> "none", enumeration |-> "none", activated |-> {},
     infos |-> <<>>, cpu_load |-> 0, ran |-> {}, trace |-> <<>>,
     calls |-> {}, created |-> {},
     before |-> NoInterfaces, run |-> "running"]

\* ticks in one behaviour of SpecTick
MaxTicks == 2

\* the state of an interface that has been activated for k ticks in which
\* nothing failed
RECURSIVE AfterQuietTicks(_)
AfterQuietTicks(k) ==
    IF k = 0
    THEN InterfaceStateNew(TickConfig)
    ELSE Turn(AfterQuietTicks(k - 1), TickConfig, Device("wlan0", TRUE),
              QuietExt, 10, tick_rate_secs * k).state

\* the governor between two ticks, k quiet ticks after Governor::new, with
\* wlan0 activated all along; k = 0 is Governor::new itself
TickInitAfter(ks) ==
    /\ tick_count \in ks
    /\ interface_states =
           IF tick_count = 0
           THEN NoInterfaces
           ELSE [n \in {"wlan0"} |-> AfterQuietTicks(tick_count)]
    /\ tick_cfg = TickConfig
    /\ tick_pc = "sleep"
    /\ tick_queue = <<>>
    /\ tick_left = MaxTicks
    /\ tick_obs = [TickObsNone EXCEPT !.before = interface_states]

IdleTick == TickInitAfter({0})

\* Instant::now() during the tick
TickNow == tick_rate_secs * tick_count

\* steps 1 and 2 of a tick: the CPU sample, the enumeration and the filter
TickBegin(enumeration, devices, cpu_load) ==
    /\ tick_pc = "sleep"
    /\ tick_obs.run = "running"
    /\ tick_left > 0
    /\ tick_left' = tick_left - 1
    /\ tick_count' = tick_count + 1
    /\ LET returned == StepAborts({<<"get_wireless_devices", enumeration>>})
           infos    == IF enumeration = "ok" THEN Activated(devices) ELSE <<>>
           result   == IF returned THEN "err"
                       ELSE IF infos = <<>> THEN "ok" ELSE "running"
       IN  /\ tick_queue' = infos
           /\ tick_pc' = IF result = "running" THEN "loop" ELSE "sleep"
           /\ tick_obs' = [result      |-> result,
                           enumeration |-> enumeration,
                           activated   |-> Names(Activated(devices)),
                           infos       |-> [i \in 1..Len(infos) |->
                                               infos[i].interface],
                           cpu_load    |-> cpu_load,
                           ran         |-> {},
                           trace       |-> <<>>,
                           calls       |-> {},
                           created     |-> {},
                           before      |-> interface_states,
                           run         |-> IF result = "running"
                                           THEN "running"
                                           ELSE RunAfterTick(result)]
    /\ UNCHANGED <<interface_states, tick_cfg>>
    /\ UNCHANGED restOfTick

\* one pass of `for (interface, path, bitrate, active_ap) in device_infos`
TickTurn(ext) ==
    /\ tick_pc = "loop"
    /\ LET dev     == Head(tick_queue)
           name    == dev.interface
           states1 == GetOrCreate(interface_states, name, tick_cfg)
           r       == Turn(states1[name], tick_cfg, dev, ext,
                           tick_obs.cpu_load, TickNow)
           rest    == IF r.aborted THEN <<>> ELSE Tail(tick_queue)
           result  == IF r.aborted THEN "err"
                      ELSE IF rest = <<>> THEN "ok" ELSE "running"
       IN  /\ interface_states' = [states1 EXCEPT ![name] = r.state]
           /\ tick_queue' = rest
           /\ tick_pc' = IF rest = <<>> THEN "sleep" ELSE "loop"
           /\ tick_obs' = [tick_obs EXCEPT
                             !.result = result,
                             !.ran = @ \cup { <<name, s>> : s \in r.ran },
                             !.trace = @ \o [i \in 1..Len(r.trace) |->
                                                <<name, r.trace[i]>>],
                             !.calls = @ \cup
                                 { <<name, c[1], c[2]>> : c \in r.calls },
                             !.created = @ \cup
                                 (IF name \in DOMAIN interface_states
                                  THEN {}
                                  ELSE {<<name, states1[name]>>}),
                             !.run = IF result = "running" THEN "running"
                                     ELSE RunAfterTick(result)]
    /\ UNCHANGED <<tick_cfg, tick_count, tick_left>>
    /\ UNCHANGED restOfTick

\* the parts of the state a specification leaves alone
IdleRoam == RoamInitWith({FALSE}, {1})
IdleCoal == CoalInitWith({FALSE}, {FALSE}) /\ PowerInit0

---------------------------------------------------------------------------
(* The bandwidth smoother driven as Governor::tick drives it *)

\* the scaled bitrates (Mbit) an interface reports
SampleSet == {0, 50, 100, 500}

\* the sample source before the alternation scenario has been set up
FlapIdle == [phase |-> "off"]

CakeObsNone ==
    [stepped |-> FALSE, n |-> 0, bitrate |-> 0, scaled |-> 0, ret |-> FALSE,
     calls |-> {}]

TcInitWith(alphas) ==
    /\ tc \in {TcManagerNew(a) : a \in alphas}
    /\ tc_pc = "idle"
    /\ tc_ret = FALSE
    /\ tc_median = None
    /\ tc_prev = tc
    /\ tc_samples = <<>>
    /\ tc_rets = <<>>
    /\ cake_res = "none"
    /\ cake_cmds = <<>>
    /\ tc_op = "new"
    /\ tc_arg = 0
    /\ cake_failed = None
    /\ cake_obs = CakeObsNone

\* the failure being followed: a valid sample counts, the fourth ends it
FailedAfterFeed(failed, s) ==
    IF failed = None \/ s = 0 THEN failed
    ELSE IF Unwrap(failed)[2] >= 3 THEN None
    ELSE Some(<<Unwrap(failed)[1], Unwrap(failed)[2] + 1>>)

\* an apply_cake that returns Err starts it
FailedAfterApply(primary, fallback) ==
    IF CakeSucceeds(primary, fallback) THEN None
    ELSE Some(<<IF primary = "nonzero" THEN "both" ELSE "spawn", 0>>)

\* one update_bandwidth call as the tick makes it, recorded or not in the
\* history of samples
Feed(s, record) ==
    /\ tc_pc = "idle"
    /\ LET r == update_bandwidth(tc, s)
       IN  /\ tc' = r.tc
           /\ tc_ret' = r.ret
           /\ tc_median' = r.median
           /\ tc_pc' = IF r.ret THEN "apply" ELSE "idle"
           /\ tc_rets' = IF record THEN Append(tc_rets, r.ret) ELSE tc_rets
    /\ tc_prev' = tc
    /\ tc_samples' = IF record THEN Append(tc_samples, s) ELSE tc_samples
    /\ cake_res' = "none"
    /\ cake_cmds' = <<>>
    /\ tc_op' = "update"
    /\ tc_arg' = s
    /\ cake_failed' = FailedAfterFeed(cake_failed, s)
    /\ UNCHANGED cake_obs

TcInit0 == TcInitWith({AlphaDefault, AlphaTest})

TcInit == TcInit0 /\ flap = FlapIdle /\ PpsInit0 /\ IdleRoam /\ IdleCoal /\ IdleTick

\* governor.rs:157  state.tc_manager.update_bandwidth(scaled_mbit)
UpdateBandwidth(s) ==
    /\ Len(tc_samples) < MaxCalls
    /\ Feed(s, TRUE)
    /\ UNCHANGED <<flap, restOfTc>>

\* governor.rs:158  let _ = state.tc_manager.apply_cake(&interface, scaled_mbit)
ApplyCake(primary, fallback) ==
    /\ tc_pc = "apply"
    /\ LET r == apply_cake(tc, primary, fallback)
       IN  /\ tc' = r.tc
           /\ cake_res' = r.res
    /\ cake_cmds' = CakeCommands(tc, primary, fallback)
    /\ tc_prev' = tc
    /\ tc_pc' = "idle"
    /\ tc_op' = "apply"
    /\ cake_failed' = FailedAfterApply(primary, fallback)
    /\ UNCHANGED <<tc_ret, tc_median, tc_samples, tc_rets, tc_arg, flap,
                   cake_obs>>
    /\ UNCHANGED restOfTc

TcNext ==
    \/ \E s \in SampleSet : UpdateBandwidth(s)
    \/ \E p \in CmdOutcomes, f \in CmdOutcomes : ApplyCake(p, f)

SpecTc == TcInit /\ [][TcNext]_vars

---------------------------------------------------------------------------
(* Step 4 of Governor::tick for one interface: from the bitrate the device *)
(* reports to the tc commands                                              *)

\* ticks in one behaviour of SpecCake
MaxCakeTicks == 6

\* d.bitrate in kbit/s: none, below 1 Mbit/s, below 2 Mbit/s, and up
CakeBitrates == {0, 999, 1999, 2000, 100000, 118000, 600000}

\* step 4 of one tick
CakeStep(bitrate, primary, fallback) ==
    /\ cake_obs.n < MaxCakeTicks
    /\ LET scaled == ScaledMbit(bitrate)
           called == TickConfig.breathing_cake_enabled /\ bitrate > 0
           r == TickBreathingCake([tc_manager |-> tc], TickConfig,
                                  [bitrate |-> bitrate],
                                  [qos |-> <<primary, fallback>>])
       IN  /\ tc' = r.state.tc_manager
           /\ cake_obs' = [stepped |-> TRUE,
                           n       |-> cake_obs.n + 1,
                           bitrate |-> bitrate,
                           scaled  |-> scaled,
                           ret     |-> called /\
                                       update_bandwidth(tc, scaled).ret,
                           calls   |-> r.calls]
    /\ tc_prev' = tc
    /\ UNCHANGED <<tc_pc, tc_ret, tc_median, tc_samples, tc_rets, cake_res,
                   cake_cmds, tc_op, tc_arg, cake_failed, flap>>
    /\ UNCHANGED restOfTc

\* the tc commands are run only in a tick whose update_bandwidth call
\* returned true
CakeOutcomes(bitrate) ==
    IF bitrate > 0 /\ update_bandwidth(tc, ScaledMbit(bitrate)).ret
    THEN QosOutcomes
    ELSE {<<"ok", "ok">>}

CakeNext ==
    \E bitrate \in CakeBitrates :
        \E q \in CakeOutcomes(bitrate) : CakeStep(bitrate, q[1], q[2])

SpecCake == TcInit /\ [][CakeNext]_vars

---------------------------------------------------------------------------
(* The alternation scenario of test_hysteresis_prevents_flapping: the      *)
(* window is filled with v and v is committed, then the samples alternate  *)
(* between lo < v and hi > v for as long as the loop runs.                 *)

FlapBase == {100, 200}
FlapDown == {10, 25, 50, 90}
FlapUp == {10, 25, 50, 90, 200}

\* update_bandwidth calls allowed for filling the window and committing v
MaxFill == 8

FiveEqual(w) == Len(w) = 5 /\ \A i \in 1..5 : w[i] = w[1]

FlapInit ==
    /\ TcInit0
    /\ flap \in { [phase |-> "fill", v |-> b, lo |-> b - d, hi |-> b + u,
                   next |-> n, fed |-> 0] :
                  b \in FlapBase, d \in FlapDown, u \in FlapUp,
                  n \in {"lo", "hi"} }
    /\ PpsInit0 /\ IdleRoam /\ IdleCoal /\ IdleTick

\* for _ in 0..5 { tc.update_bandwidth(100); }
FlapFill ==
    /\ flap.phase = "fill"
    /\ flap.fed < MaxFill
    /\ Feed(flap.v, FALSE)
    /\ flap' = [flap EXCEPT !.fed = @ + 1]
    /\ UNCHANGED restOfTc

\* v is committed and fills the window: the alternation may begin
FlapStart ==
    /\ flap.phase = "fill"
    /\ tc_pc = "idle"
    /\ tc.last_bandwidth = Some(flap.v)
    /\ FiveEqual(tc.sample_window)
    /\ flap' = [flap EXCEPT !.phase = "armed"]
    /\ UNCHANGED <<tcVars, restOfTc>>

\* tc.update_bandwidth(50); tc.update_bandwidth(150); ...
FlapAlternate ==
    /\ flap.phase \in {"armed", "alt"}
    /\ Feed(IF flap.next = "lo" THEN flap.lo ELSE flap.hi, FALSE)
    /\ flap' = [flap EXCEPT !.phase = "alt",
                            !.next = IF @ = "lo" THEN "hi" ELSE "lo"]
    /\ UNCHANGED restOfTc

\* the tick applies CAKE whenever update_bandwidth returned true
FlapApply(primary, fallback) ==
    /\ flap.phase # "off"
    /\ ApplyCake(primary, fallback)

FlapNext ==
    \/ FlapFill
    \/ FlapStart
    \/ FlapAlternate
    \/ \E p \in CmdOutcomes, f \in CmdOutcomes : FlapApply(p, f)

SpecFlap == FlapInit /\ [][FlapNext]_vars

---------------------------------------------------------------------------
(* The sustained-change scenario of test_median_smoothing and its like:    *)
(* some samples are fed and a bandwidth is committed, then every following *)
(* sample is the same value v, until update_bandwidth returns true.        *)

SusFillSet == {100, 500}
SusValues == {50, 80, 125, 400, 600}

\* update_bandwidth calls before the sustained samples begin
MaxSusFill == 7

SusInit ==
    /\ TcInit0
    /\ flap = [phase |-> "fill", fed |-> 0, v |-> 0, committed |-> 0]
    /\ PpsInit0 /\ IdleRoam /\ IdleCoal /\ IdleTick

\* the ticks before the change: any samples
SusFill(s) ==
    /\ flap.phase = "fill"
    /\ flap.fed < MaxSusFill
    /\ Feed(s, FALSE)
    /\ flap' = [flap EXCEPT !.fed = @ + 1]
    /\ UNCHANGED restOfTc

\* the tick applies CAKE whenever update_bandwidth returned true
SusApply(primary, fallback) ==
    /\ flap.phase \in {"fill", "fired"}
    /\ ApplyCake(primary, fallback)

\* a bandwidth is committed: from now on every sample is v
SusStart(v) ==
    /\ flap.phase = "fill"
    /\ tc_pc = "idle"
    /\ IsSome(tc.last_bandwidth)
    /\ flap' = [flap EXCEPT !.phase = "sustain", !.v = v,
                            !.committed = Unwrap(tc.last_bandwidth)]
    /\ UNCHANGED <<tcVars, restOfTc>>

\* governor.rs:157 with the sustained sample, until the first approval
SusFeed ==
    /\ flap.phase = "sustain"
    /\ Feed(flap.v, FALSE)
    /\ flap' = [flap EXCEPT !.phase = IF update_bandwidth(tc, flap.v).ret
                                      THEN "fired" ELSE "sustain"]
    /\ UNCHANGED restOfTc

SusNext ==
    \/ \E s \in SusFillSet : SusFill(s)
    \/ \E p \in CmdOutcomes, f \in CmdOutcomes : SusApply(p, f)
    \/ \E v \in SusValues : SusStart(v)
    \/ SusFeed

\* Governor::run ticks for ever, and every tick with a bitrate feeds the
\* smoother
SpecSus == SusInit /\ [][SusNext]_vars /\ WF_vars(SusFeed)

---------------------------------------------------------------------------
(* The governor loop: a tick every tick_rate_secs seconds *)

\* where a behaviour starts: at Governor::new, or where 2 or 4 quiet ticks
\* have left the governor (the power-save gate, then the bandwidth
\* smoother, is one tick from firing)
QuietTicksBefore == {0, 2, 4}

TickInit ==
    /\ TickInitAfter(QuietTicksBefore)
    /\ TcInitWith({AlphaDefault}) /\ flap = FlapIdle
    /\ PpsInit0 /\ IdleRoam /\ IdleCoal

TickCpuLoads == {10}

TickNext ==
    \/ \E enumeration \in {"ok", "err"}, devices \in DeviceLists,
          cpu_load \in TickCpuLoads :
           TickBegin(enumeration, devices, cpu_load)
    \/ /\ tick_pc = "loop"
       /\ \E ext \in TurnExts(GetOrCreate(interface_states,
                                          Head(tick_queue).interface,
                                          tick_cfg)[Head(tick_queue).interface],
                              tick_cfg, Head(tick_queue), tick_obs.cpu_load,
                              TickNow) :
              TickTurn(ext)

SpecTick == TickInit /\ [][TickNext]_vars

---------------------------------------------------------------------------
(* The packet-rate monitor sampled once per tick *)

PpsInit ==
    /\ PpsInit0 /\ IdleTick
    /\ TcInitWith({AlphaDefault}) /\ flap = FlapIdle
    /\ IdleRoam /\ IdleCoal

PpsNext == \E dt \in 0..MaxDt, read \in ReadSet : PpsSample(dt, read)

SpecPps == PpsInit /\ [][PpsNext]_vars

---------------------------------------------------------------------------
(* Band steering evaluated once per tick *)

RoamInit ==
    /\ RoamInitWith(BOOLEAN, 1..MaxHysteresis)
    /\ TcInitWith({AlphaDefault}) /\ flap = FlapIdle
    /\ PpsInit0 /\ IdleCoal /\ IdleTick

RoamNext ==
    \E active_ap \in ActiveApSet, aps \in {None} \cup {Some(l) : l \in ApLists} :
        RoamTick(active_ap, aps)

SpecRoam == RoamInit /\ [][RoamNext]_vars

\* scan results that list only the access points of the associated network
\* that pass the signal floor
SteerScans ==
    {None} \cup {Some(l) : l \in {m \in ApLists :
                     \A i \in 1..Len(m) : m[i] \in {ApC, ApA, ApB, ApD}}}

SteerNext ==
    \E active_ap \in ActiveApSet, aps \in SteerScans :
        SteerTick(active_ap, aps)

\* band steering with its scan requests counted
SpecSteer == RoamInit /\ [][SteerNext]_vars

---------------------------------------------------------------------------
(* Game mode and coalescing evaluated once per tick *)

CoalInit ==
    /\ CoalInitWith(BOOLEAN, BOOLEAN) /\ PowerInit0
    /\ TcInitWith({AlphaDefault}) /\ flap = FlapIdle
    /\ PpsInit0 /\ IdleRoam /\ IdleTick

CoalNext ==
    \E dt \in 1..MaxDt, pps_value \in PpsValues, cpu_load \in CpuLoads,
       outcome \in CmdOutcomes :
        CoalTick(dt, pps_value, cpu_load, outcome)

SpecCoal == CoalInit /\ [][CoalNext]_vars

---------------------------------------------------------------------------
(* Game mode, the coalescing gate and the power-save gate evaluated once   *)
(* per tick, in the order of the tick                                      *)

GatesInit ==
    /\ CoalInitWith(BOOLEAN, BOOLEAN) /\ PowerInit0
    /\ TcInitWith({AlphaDefault}) /\ flap = FlapIdle
    /\ PpsInit0 /\ IdleRoam /\ IdleTick

\* what ethtool can do in this tick: it is run only when the gate fires
EthtoolOutcomes(dt, pps_value, cpu_load) ==
    LET until == IF gov_cfg.game_mode_enabled
                 THEN GameModeDetect(game_mode_until, pps_value, gov_now + dt)
                 ELSE game_mode_until
        should == ShouldCoalesce(InGame(until, gov_now + dt), HighCpu(cpu_load))
    IN  IF /\ gov_cfg.cpu_coalescing_enabled
           /\ CoalescingGate(coal, should, "ok").fired
        THEN CmdOutcomes
        ELSE {"ok"}

\* whether a handle is found and what the toggle returns in this tick: the
\* lookup is made only when the gate fires, the toggle only with a handle
HandleOutcomes(should_enable) ==
    IF PowerSaveGate(ps, should_enable, TRUE, "ok").fired
    THEN {<<FALSE, "ok">>} \cup {<<TRUE, t>> : t \in ToggleOutcomes}
    ELSE {<<TRUE, "ok">>}

GatesNext ==
    \E dt \in 1..MaxDt, pps_value \in PpsValues, cpu_load \in CpuLoads,
       should_enable \in BOOLEAN :
        \E outcome \in EthtoolOutcomes(dt, pps_value, cpu_load),
           h \in HandleOutcomes(should_enable) :
            GatesTick(dt, pps_value, cpu_load, outcome, should_enable,
                      h[1], h[2])

SpecGates == GatesInit /\ [][GatesNext]_vars

---------------------------------------------------------------------------
\* the state right after an update_bandwidth call / an apply_cake call
AfterUpdate == tc_op = "update"
AfterApply == tc_op = "apply"

\* the number of accepted (non-zero) samples among the first n fed
Accepted(n) == Cardinality({i \in 1..n : tc_samples[i] # 0})

\* samples i..j are all the same non-zero value
EqualRun(i, j) ==
    \A k \in i..j : tc_samples[k] = tc_samples[i] /\ tc_samples[i] # 0

---------------------------------------------------------------------------
(* C5: from an empty smoother with nothing committed, five consecutive     *)
(* equal non-zero samples make update_bandwidth return false on calls 1    *)
(* to 4 and true on call 5: exactly one true in the five calls.            *)
C5_FifthEqualSampleFires ==
    \A n \in 1..Len(tc_samples) :
        (n <= 5 /\ EqualRun(1, n)) => (tc_rets[n] = (n = 5))

C5_Witness ==
    /\ Len(tc_samples) >= 5
    /\ EqualRun(1, 5)
    /\ tc_rets[5] = TRUE
    /\ \A i \in 1..4 : tc_rets[i] = FALSE

(* C6: from an empty smoother, update_bandwidth returns false for the      *)
(* first two accepted samples whatever their values and leaves pending     *)
(* and the stability counter untouched while the window holds fewer than   *)
(* 3 samples; it returns true only from the third accepted sample on.      *)
C6_WarmUp ==
    /\ \A n \in 1..Len(tc_samples) : Accepted(n) < 3 => tc_rets[n] = FALSE
    /\ (AfterUpdate /\ Len(tc.sample_window) < 3) =>
          /\ tc_ret = FALSE
          /\ tc.pending_bandwidth = tc_prev.pending_bandwidth
          /\ tc.stable_ticks = tc_prev.stable_ticks
          /\ tc.pending_bandwidth = None
          /\ tc.stable_ticks = 0

C6_Witness ==
    /\ AfterUpdate
    /\ Len(tc.sample_window) = 2
    /\ tc.sample_window[1] # tc.sample_window[2]
    /\ tc_ret = FALSE

\* the last call fed another value into a window of five equal samples
OutlierFed ==
    /\ AfterUpdate
    /\ FiveEqual(tc_prev.sample_window)
    /\ tc_arg \notin {0, tc_prev.sample_window[1]}

---------------------------------------------------------------------------
\* the last call fed an alternating sample while v was the committed value
Alternating ==
    /\ flap.phase = "alt"
    /\ AfterUpdate
    /\ tc_prev.last_bandwidth = Some(flap.v)

\* the two alternating values are equally far from v
Symmetric == flap.phase # "off" /\ flap.v - flap.lo = flap.hi - flap.v

(* C4 as stated: after v has been committed with the window filled with   *)
(* v, samples alternating on every call between a value below v and a      *)
(* value above v never make update_bandwidth return true.                  *)
C4_AnyAlternationNeverFires == Alternating => tc_ret = FALSE

(* C4 as amended: when the two alternating values are equally far from v   *)
(* (v - d and v + d, as 50 and 150 around 100), update_bandwidth never     *)
(* returns true, however long the alternation continues.                   *)
C4_SymmetricAlternationNeverFires ==
    (Alternating /\ Symmetric) => (tc_ret = FALSE /\ tc.stable_ticks <= 1)

C4_Witness ==
    /\ Alternating
    /\ flap.v = 100 /\ flap.lo = 50 /\ flap.hi = 150
    /\ tc.ema_alpha = AlphaTest
    /\ tc.pending_bandwidth = Some(75)
    /\ tc.stable_ticks = 1

---------------------------------------------------------------------------
\* what the last apply_cake saw: the primary command, the fallback command
\* when one was run
PrimaryCmd == cake_cmds[1]
FallbackRun == Len(cake_cmds) = 2
FallbackCmd == cake_cmds[2]

\* the committed bandwidth follows the commands' success
CommitFollowsSuccess ==
    /\ AfterUpdate => tc.last_bandwidth = tc_prev.last_bandwidth
    /\ AfterApply =>
          /\ PrimaryCmd[1] = "diffserv4"
          /\ FallbackRun =>
                /\ PrimaryCmd[3] # "ok"
                /\ FallbackCmd[1] = "besteffort"
                /\ FallbackCmd[2] = PrimaryCmd[2]
          /\ IF PrimaryCmd[3] = "ok" \/ (FallbackRun /\ FallbackCmd[3] = "ok")
             THEN /\ cake_res = "ok"
                  /\ tc.last_bandwidth = Some(PrimaryCmd[2])
             ELSE /\ cake_res = "err"
                  /\ tc.last_bandwidth = tc_prev.last_bandwidth

(* C10 as stated: the committed bandwidth is updated only when the primary *)
(* command or, after it failed, the fallback command with the same target  *)
(* succeeded; every failure of the primary command leads to a fallback     *)
(* attempt; when the fallback also fails the call returns an error and     *)
(* the committed bandwidth is unchanged.                                   *)
C10_EveryPrimaryFailureFallsBack ==
    /\ CommitFollowsSuccess
    /\ (AfterApply /\ PrimaryCmd[3] # "ok") => FallbackRun

(* C10 as amended: as stated, except that only a primary command that ran  *)
(* and exited non-zero leads to a fallback attempt; when the primary       *)
(* command could not be executed at all, apply_cake returns the error at   *)
(* once, with no fallback attempt and the committed bandwidth unchanged.   *)
C10_CommitFollowsActuation ==
    /\ CommitFollowsSuccess
    /\ (AfterApply /\ PrimaryCmd[3] = "nonzero") => FallbackRun
    /\ (AfterApply /\ PrimaryCmd[3] = "spawn_err") =>
          /\ ~FallbackRun
          /\ cake_res = "err"
          /\ tc.last_bandwidth = tc_prev.last_bandwidth

C10_Witness ==
    /\ AfterApply
    /\ PrimaryCmd[3] = "nonzero"
    /\ FallbackRun /\ FallbackCmd[3] = "ok"
    /\ tc_prev.last_bandwidth = None
    /\ tc.last_bandwidth = Some(100)

---------------------------------------------------------------------------
\* the last sample call read counters whose total is below the stored total
CountersDecreased ==
    /\ IsSome(pps_read)
    /\ IsSome(pps_prev.last_stats)
    /\ total_packets(Unwrap(pps_read))
           < total_packets(Unwrap(pps_prev.last_stats))

\* the last sample call computed a rate: time had passed since the stored one
RateComputed ==
    /\ IsSome(pps_read)
    /\ IsSome(pps_prev.last_sample_time)
    /\ pps_now > Unwrap(pps_prev.last_sample_time)

(* C9: when the cumulative rx+tx total read by sample is lower than the    *)
(* total of the previous sample, the packet delta is clamped to zero: the  *)
(* raw rate of that sample is 0, the smoothed rate does not rise, and no   *)
(* rate is ever negative.                                                  *)
C9_CounterResetClampsToZero ==
    /\ pps.current_pps >= 0
    /\ pps.smoothed_pps >= 0
    /\ pps_ret >= 0
    /\ (CountersDecreased /\ RateComputed) =>
          /\ pps.current_pps = 0
          /\ pps.smoothed_pps <= pps_prev.smoothed_pps
          /\ pps_ret <= Round(pps_prev.smoothed_pps)

C9_Witness ==
    /\ CountersDecreased
    /\ RateComputed
    /\ pps_prev.current_pps > 0
    /\ pps_prev.smoothed_pps > 0
    /\ pps.current_pps = 0
    /\ pps.smoothed_pps < pps_prev.smoothed_pps

---------------------------------------------------------------------------
\* positions in the last scan result of the access points that pass the
\* filter, and of those among them with the maximal score
QualIdx ==
    {i \in 1..Len(roam_obs.aps) :
        Qualifies(roam_obs.aps[i], Unwrap(roam_obs.current))}

TopIdx ==
    {i \in QualIdx :
        \A j \in QualIdx : ApScore(roam_obs.aps[j]) <= ApScore(roam_obs.aps[i])}

FirstOf(S) == CHOOSE i \in S : \A j \in S : i <= j
LastOf(S) == CHOOSE i \in S : \A j \in S : j <= i

C2_FiresOnNthEvaluation ==
    roam_obs.evaluated =>
        /\ roam_streak.n <= roam_cfg.roam_hysteresis_ticks
        /\ roam_streak.n = roam_cfg.roam_hysteresis_ticks =>
              (roam_obs.scan /\ roam_candidate = None)
        /\ roam_streak.n \in 1..(roam_cfg.roam_hysteresis_ticks - 1) =>
              ~roam_obs.scan

\* the same for N >= 2 only
C2_FiresOnNthEvaluationFromTwo ==
    roam_cfg.roam_hysteresis_ticks >= 2 => C2_FiresOnNthEvaluation

C2_FromTwoWitness ==
    /\ roam_obs.evaluated
    /\ roam_cfg.roam_hysteresis_ticks = 3
    /\ roam_streak.n = 3
    /\ roam_obs.scan
    /\ roam_candidate = None

---------------------------------------------------------------------------
\* the coalescing gate ran ethtool in the last tick
CoalFired == coal_obs.stepped /\ coal_obs.fired

(* C3: when the coalescing gate fires, coalescing_enabled becomes the      *)
(* desired value only if the actuation succeeded; if it failed the applied *)
(* state is left unchanged; in both cases pending and the stability        *)
(* counter are cleared.                                                    *)
C3_CommitOnlyOnSuccess ==
    CoalFired =>
        /\ coal.pending_coalescing = None
        /\ coal.coalescing_stable_ticks = 0
        /\ IF coal_obs.outcome = "ok"
           THEN coal.coalescing_enabled = coal_obs.should_coalesce
           ELSE coal.coalescing_enabled = coal_obs.prev.coalescing_enabled

\* what the code does instead: the commit does not look at the outcome
C3_CommitWhateverTheOutcome ==
    CoalFired =>
        /\ coal.pending_coalescing = None
        /\ coal.coalescing_stable_ticks = 0
        /\ coal.coalescing_enabled = coal_obs.should_coalesce
        /\ coal.coalescing_enabled # coal_obs.prev.coalescing_enabled

C3_FailedButCommitted ==
    /\ CoalFired
    /\ coal_obs.outcome = "nonzero"
    /\ coal_obs.prev.coalescing_enabled = FALSE
    /\ coal.coalescing_enabled = TRUE

\* the interface is in game mode at the instant of the last tick
InGameNow ==
    /\ game_mode_until # None
    /\ gov_now < Unwrap(game_mode_until)

(* C8: the desired coalescing value computed in a tick is false exactly    *)
(* when the interface is in game mode (now < deadline) and cpu_load is not *)
(* above the threshold: desired = NOT (in_game AND NOT high_cpu).          *)
C8_CoalescingTruthTable ==
    coal_obs.stepped =>
        (coal_obs.should_coalesce
            = ~(InGameNow /\ ~(coal_obs.cpu_load > cpu_coalescing_threshold)))

C8_Witness ==
    /\ coal_obs.stepped
    /\ InGameNow
    /\ coal_obs.cpu_load = cpu_coalescing_threshold
    /\ coal_obs.should_coalesce = FALSE
    /\ coal_obs.prev.coalescing_enabled = TRUE

\* the other three rows of the table
C8_RowGameHighCpu ==
    coal_obs.stepped /\ InGameNow /\ coal_obs.cpu_load = 90
        /\ coal_obs.should_coalesce
C8_RowIdleLowCpu ==
    coal_obs.stepped /\ ~InGameNow /\ coal_obs.cpu_load = 10
        /\ coal_obs.should_coalesce
C8_RowIdleHighCpu ==
    coal_obs.stepped /\ ~InGameNow /\ coal_obs.cpu_load = 90
        /\ coal_obs.should_coalesce

---------------------------------------------------------------------------
\* the last call was the n-th with a valid sample after a failed apply_cake
ValidAfterFailure(n) ==
    /\ AfterUpdate
    /\ tc_arg # 0
    /\ cake_failed # None
    /\ Unwrap(cake_failed)[2] = n

(* C11 as stated: when update_bandwidth fired and both QoS commands        *)
(* failed, the next update_bandwidth call with a valid sample (the window  *)
(* is warm) returns true, so that the actuation is attempted again.        *)
C11_NextWarmTickRetries ==
    (ValidAfterFailure(1) /\ Unwrap(cake_failed)[1] = "both")
        => tc_ret = TRUE

(* C11 as amended: after a failed actuation the first and the second call  *)
(* with a valid sample return false (approval had already cleared pending  *)
(* and the stability counter); the actuation is attempted again when the   *)
(* change is approved anew, and with nothing committed so far that is on   *)
(* exactly the third valid sample after the failure.                       *)
C11_RetryAfterNewApproval ==
    /\ (ValidAfterFailure(1) \/ ValidAfterFailure(2)) => tc_ret = FALSE
    /\ (ValidAfterFailure(3) /\ tc_prev.last_bandwidth = None)
          => tc_ret = TRUE

C11_Witness ==
    /\ ValidAfterFailure(3)
    /\ Unwrap(cake_failed)[1] = "both"
    /\ tc_prev.last_bandwidth = None
    /\ tc_ret = TRUE
    /\ Len(tc_samples) = 8
    /\ tc_rets[5] = TRUE /\ tc_rets[6] = FALSE /\ tc_rets[7] = FALSE

\* the first valid sample after the failure is turned down
C11_FirstTickDoesNotRetry ==
    /\ ValidAfterFailure(1)
    /\ Unwrap(cake_failed)[1] = "both"
    /\ tc_ret = FALSE
    /\ tc.stable_ticks = 1

---------------------------------------------------------------------------
\* the distance of the sustained value from the committed one meets the
\* absolute or the percentage threshold
MeetsThreshold ==
    \/ Abs(flap.v - flap.committed) >= 25
    \/ Abs(flap.v - flap.committed) * 100 >= 20 * flap.committed

Sustaining == flap.phase = "sustain" /\ MeetsThreshold

(* C12: after a bandwidth has been committed, if every following sample is *)
(* the same non-zero value whose distance from the committed value meets   *)
(* the absolute (25 Mbit) or the percentage (20%) threshold,               *)
(* update_bandwidth eventually returns true.                               *)
C12_SustainedChangeFires ==
    Sustaining ~> (flap.phase = "fired" /\ tc_ret = TRUE)

C12_Witness ==
    /\ flap.phase = "fired"
    /\ MeetsThreshold
    /\ flap.committed = 100 /\ flap.v = 80
    /\ tc_ret = TRUE
    /\ tc.ema_alpha = AlphaDefault
    /\ tc_prev.last_bandwidth = Some(100)

---------------------------------------------------------------------------
(* C14: across any sequence of ticks the game-mode deadline never moves to *)
(* an earlier instant; a tick whose smoothed PPS exceeds the threshold     *)
(* sets it to now + cooldown, and a tick whose smoothed PPS is at or below *)
(* the threshold leaves it unchanged.                                      *)
C14_DeadlineMonotone ==
    [][ /\ IsSome(game_mode_until) =>
              /\ IsSome(game_mode_until')
              /\ Unwrap(game_mode_until') >= Unwrap(game_mode_until)
        /\ (gov_cfg.game_mode_enabled /\ coal_obs'.pps > 200) =>
              game_mode_until' = Some(gov_now' + game_mode_cooldown_secs)
        /\ (~gov_cfg.game_mode_enabled \/ coal_obs'.pps <= 200) =>
              game_mode_until' = game_mode_until ]_vars

C14_Witness ==
    /\ gov_cfg.game_mode_enabled
    /\ coal_obs.pps = 201
    /\ IsSome(coal_obs.prev_until)
    /\ gov_now < Unwrap(coal_obs.prev_until)
    /\ game_mode_until = Some(gov_now + game_mode_cooldown_secs)
    /\ Unwrap(game_mode_until) > Unwrap(coal_obs.prev_until)

\* a low reading while in game mode left the deadline where it was
C14_LowReadingKeepsDeadline ==
    /\ gov_cfg.game_mode_enabled
    /\ coal_obs.pps = 0
    /\ IsSome(coal_obs.prev_until)
    /\ gov_now < Unwrap(coal_obs.prev_until)
    /\ game_mode_until = coal_obs.prev_until

---------------------------------------------------------------------------
\* the power-save gate fired in the last tick
PowerFired == ps_obs.stepped /\ ps_obs.fired

\* ... and a handle was found and the toggle returned success
PowerToggled == PowerFired /\ ps_obs.found /\ ps_obs.toggle = "ok"

(* C15: the applied power-save state changes only in a tick where the gate *)
(* fired, a WiFi handle was found and the toggle returned success, and it  *)
(* then equals the desired value; when the toggle fails or no handle is    *)
(* found the applied state is unchanged; in every firing tick pending and  *)
(* the stability counter are cleared.                                      *)
C15_PowerSaveCommitsOnSuccess ==
    ps_obs.stepped =>
        /\ IF PowerToggled
           THEN ps.power_save_enabled = Some(ps_obs.should_enable)
           ELSE ps.power_save_enabled = ps_obs.prev.power_save_enabled
        /\ PowerFired =>
              /\ ps.pending_power_save = None
              /\ ps.power_save_stable_ticks = 0

C15_Witness ==
    /\ PowerFired
    /\ ps_obs.found
    /\ ps_obs.toggle = "err"
    /\ ps_obs.should_enable = FALSE
    /\ ps_obs.prev.power_save_enabled = Some(TRUE)
    /\ ps.power_save_enabled = Some(TRUE)
    /\ ps.pending_power_save = None

\* the other two outcomes of a firing tick
C15_NoHandle ==
    /\ PowerFired /\ ~ps_obs.found
    /\ ps_obs.prev.power_save_enabled = None
    /\ ps.power_save_enabled = None
C15_Toggled ==
    /\ PowerToggled
    /\ ps_obs.prev.power_save_enabled = None
    /\ ps.power_save_enabled = Some(FALSE)

---------------------------------------------------------------------------
\* in each of the last n evaluations of a gate the desired value was the
\* same and differed from the applied one, and none but the last fired
GateWindow(h, n) ==
    /\ Len(h) >= n
    /\ \A i \in (Len(h) - n + 1)..Len(h) :
          /\ h[i].desired = h[Len(h)].desired
          /\ h[i].desired # h[i].applied
          /\ i < Len(h) => ~h[i].fired

C16_CoalescingFiredOnSecond ==
    /\ coal_obs.stepped /\ coal_obs.fired
    /\ GateWindow(coal_hist, 2)
    /\ coal_obs.should_coalesce = FALSE

\* right after a firing whose toggle failed the count starts again
C16_RestartAfterFailedToggle ==
    /\ Len(ps_hist) = 3
    /\ ps_hist[2].fired
    /\ ps_hist[3].desired = ps_hist[2].desired
    /\ ps_hist[3].desired # ps_hist[3].applied
    /\ ~ps_obs.fired
    /\ ps.power_save_stable_ticks = 1

---------------------------------------------------------------------------
\* the last scan result lists an access point of the same network, other
\* than the current one, with enough signal and a strictly higher score
StrictlyBetterFound ==
    \E i \in 1..Len(roam_obs.aps) :
        LET ap == roam_obs.aps[i]
            cur == Unwrap(roam_obs.current)
        IN  /\ ap.ssid = cur.ssid
            /\ ap.bssid # cur.bssid
            /\ ap.signal_strength >= min_signal_dbm
            /\ ApScore(ap) > ApScore(cur)

\* the accumulator is non-empty only after an evaluation that found a
\* strictly better access point and requested no scan
CandidateJustified ==
    roam_candidate # None =>
        /\ roam_obs.evaluated
        /\ StrictlyBetterFound
        /\ ~roam_obs.scan

(* C17 as stated: at the end of every tick the roam candidate is non-empty *)
(* only if in that tick a qualifying access point scoring strictly higher  *)
(* than the current one was found and no steering request fired.           *)
C17_CandidateJustifiedEveryTick == CandidateJustified

(* C17 as amended: at the end of every tick in which band steering was     *)
(* evaluated (enabled, an access point associated, the list obtained) the  *)
(* roam candidate is non-empty exactly when a qualifying strictly better   *)
(* access point was found and no steering request fired; a tick in which   *)
(* it was not evaluated leaves the roam candidate as it was.               *)
C17_CandidateJustifiedWhenEvaluated ==
    IF roam_obs.evaluated
    THEN roam_candidate # None <=> (StrictlyBetterFound /\ ~roam_obs.scan)
    ELSE roam_candidate = roam_obs.prev

C17_Witness ==
    /\ roam_obs.evaluated
    /\ roam_obs.prev # None
    /\ Unwrap(roam_obs.prev).consecutive_ticks = 2
    /\ ~StrictlyBetterFound
    /\ roam_obs.aps # <<>>
    /\ roam_candidate = None

\* a candidate outliving a tick in which the list could not be obtained
C17_StaleCandidate ==
    /\ ~roam_obs.evaluated
    /\ IsSome(roam_obs.current)
    /\ roam_cfg.band_steering_enabled
    /\ roam_candidate # None

\* a steering request emptying the accumulator
C17_ClearedByScan ==
    /\ roam_obs.evaluated /\ roam_obs.scan
    /\ StrictlyBetterFound
    /\ roam_candidate = None

---------------------------------------------------------------------------
(* C19: when the packet-counter read fails, PpsMonitor::sample returns the *)
(* last known rounded smoothed PPS and leaves the stored counters, the     *)
(* last sample time and the smoothed value unchanged.                      *)
C19_FailedReadLeavesSampler ==
    pps_read = None =>
        /\ pps_ret = Round(pps_prev.smoothed_pps)
        /\ pps.last_stats = pps_prev.last_stats
        /\ pps.last_sample_time = pps_prev.last_sample_time
        /\ pps.smoothed_pps = pps_prev.smoothed_pps
        /\ pps.current_pps = pps_prev.current_pps

C19_Witness ==
    /\ pps_read = None
    /\ IsSome(pps_prev.last_stats)
    /\ pps_prev.smoothed_pps > 0
    /\ pps_now > Unwrap(pps_prev.last_sample_time)
    /\ pps_ret = Round(pps_prev.smoothed_pps)
    /\ pps_ret > 0
    /\ pps = pps_prev

---------------------------------------------------------------------------
\* the EMA step the claim describes: 0.3 * raw_rate + 0.7 * smoothed
Smoothed(raw_rate, smoothed) ==
    Nearest(3 * ToF64(raw_rate) + 7 * smoothed, 10)

(* C20: sample returns 0 on the first call (no prior sample), sets         *)
(* smoothed := raw_rate only on the first sample that produces a rate, and *)
(* on every later rate-producing sample sets                               *)
(* smoothed := 0.3 * raw_rate + 0.7 * smoothed, whatever the previous      *)
(* smoothed value is.                                                      *)
C20_SeedsOnce ==
    /\ pps_prev.last_stats = None => pps_ret = 0
    /\ RateComputed =>
          IF pps_rated = 1
          THEN pps.smoothed_pps = ToF64(pps.current_pps)
          ELSE pps.smoothed_pps
                   = Smoothed(pps.current_pps, pps_prev.smoothed_pps)

\* what the code does instead: it seeds whenever the smoothed value is 0.0
C20_SeedsWheneverZero ==
    /\ pps_prev.last_stats = None => pps_ret = 0
    /\ RateComputed =>
          IF pps_prev.smoothed_pps = 0
          THEN pps.smoothed_pps = ToF64(pps.current_pps)
          ELSE pps.smoothed_pps
                   = Smoothed(pps.current_pps, pps_prev.smoothed_pps)

\* a burst after an idle start is taken over unsmoothed
C20_SpikeUnsmoothed ==
    /\ RateComputed
    /\ pps_rated = 2
    /\ pps_prev.smoothed_pps = 0
    /\ pps.current_pps = 500
    /\ pps_ret = 500


---------------------------------------------------------------------------
(* C13: failure isolation within a tick *)

\* the tick has returned
TickOver == tick_pc = "sleep" /\ tick_obs.result # "none"

\* every step of the loop body ran for interface n in this tick
AllStepsRan(n) == \A i \in 1..Len(Steps) : <<n, Steps[i]>> \in tick_obs.ran

\* the calls that failed for interface n in this tick
FailedCalls(n) == { c[2] : c \in { d \in tick_obs.calls :
                                     d[1] = n /\ d[3] # "ok" } }

\* C13 as stated: whatever external call fails, device enumeration
\* included, the tick is not aborted and every step runs for every
\* activated interface.
C13_NoFailureAbortsTick ==
    TickOver =>
        /\ tick_obs.result = "ok"
        /\ \A n \in tick_obs.activated : AllStepsRan(n)

\* C13: a failed counter read, QoS actuation, coalescing actuation,
\* power-save toggle, AP-list query or scan request neither aborts the tick
\* nor keeps any step of any activated interface from running; a failed
\* device enumeration ends the tick with an error before any step runs and
\* with no interface state changed; the loop goes on either way.
C13_OnlyEnumerationFailureAbortsTick ==
    TickOver =>
        /\ tick_obs.run = "running"
        /\ tick_obs.enumeration = "ok" =>
               /\ tick_obs.result = "ok"
               /\ \A n \in tick_obs.activated : AllStepsRan(n)
        /\ tick_obs.enumeration = "err" =>
               /\ tick_obs.result = "err"
               /\ tick_obs.ran = {}
               /\ tick_obs.calls = {}
               /\ interface_states = tick_obs.before

\* two interfaces in one tick; for the first the counter read, the QoS
\* actuation and the AP-list query all failed, and the bandwidth smoother
\* was still fed, the gates still evaluated, and the other interface served
C13_Witness ==
    /\ TickOver
    /\ tick_obs.result = "ok"
    /\ tick_obs.activated = InterfaceNames
    /\ FailedCalls("wlan0") =
           {"read_counters", "apply_cake", "get_access_points"}
    /\ \A n \in InterfaceNames : AllStepsRan(n)
    /\ interface_states["wlan0"].tc_manager.last_bandwidth = None
    /\ interface_states["wlan1"] # InterfaceStateNew(tick_cfg)

\* the coalescing actuation and the scan request failed in one tick
C13_EthtoolAndScanFailed ==
    /\ TickOver
    /\ \E n \in tick_obs.activated :
           /\ {"ethtool", "request_scan"} \subseteq FailedCalls(n)
           /\ AllStepsRan(n)
           /\ interface_states[n].coal.coalescing_enabled

\* the power-save toggle failed and band steering still ran
C13_ToggleFailed ==
    /\ TickOver
    /\ \E n \in tick_obs.activated :
           /\ "set_power_save" \in FailedCalls(n)
           /\ AllStepsRan(n)
           /\ interface_states[n].ps.power_save_enabled = None
           /\ interface_states[n].roam_candidate
                  # tick_obs.before[n].roam_candidate

\* device enumeration failed with two interfaces up, one of them tracked
C13_EnumerationFailed ==
    /\ TickOver
    /\ tick_obs.enumeration = "err"
    /\ tick_obs.activated = InterfaceNames
    /\ DOMAIN interface_states = {"wlan0"}
    /\ tick_left = 0

---------------------------------------------------------------------------
(* C18: interface state is created lazily and never evicted *)

\* the values of InterfaceState::new, written out
InitialValues(st) ==
    /\ st.coal.coalescing_enabled = FALSE
    /\ st.coal.pending_coalescing = None
    /\ st.coal.coalescing_stable_ticks = 0
    /\ st.ps.power_save_enabled = None
    /\ st.ps.pending_power_save = None
    /\ st.ps.power_save_stable_ticks = 0
    /\ st.roam_candidate = None
    /\ st.game_mode_until = None
    /\ st.tc_manager.sample_window = <<>>
    /\ st.tc_manager.last_bandwidth = None
    /\ st.tc_manager.pending_bandwidth = None
    /\ st.tc_manager.stable_ticks = 0
    /\ st.pps_monitor.last_stats = None
    /\ st.pps_monitor.last_sample_time = None

\* C18: within a tick no tracked name is dropped; a name is added only for
\* an activated interface not tracked before, with the initial values;
\* once the tick is over every activated interface listed is tracked; and a
\* tracked interface that was not listed as activated has the state it had
\* when the tick began.
C18_CreatedLazilyNeverEvicted ==
    /\ DOMAIN tick_obs.before \subseteq DOMAIN interface_states
    /\ DOMAIN interface_states \ DOMAIN tick_obs.before
           = { c[1] : c \in tick_obs.created }
    /\ \A c \in tick_obs.created :
           /\ c[1] \in tick_obs.activated
           /\ InitialValues(c[2])
    /\ (TickOver /\ tick_obs.enumeration = "ok") =>
           tick_obs.activated \subseteq DOMAIN interface_states
    /\ \A n \in DOMAIN tick_obs.before \ tick_obs.activated :
           interface_states[n] = tick_obs.before[n]

\* a tick that listed wlan1 alone: wlan1 is created and served, and wlan0,
\* tracked for four ticks, keeps its smoother, gates and candidate
C18_Witness ==
    /\ TickOver
    /\ tick_obs.enumeration = "ok"
    /\ tick_obs.activated = {"wlan1"}
    /\ DOMAIN tick_obs.before = {"wlan0"}
    /\ DOMAIN interface_states = InterfaceNames
    /\ { c[1] : c \in tick_obs.created } = {"wlan1"}
    /\ ~InitialValues(interface_states["wlan0"])
    /\ Len(interface_states["wlan0"].tc_manager.sample_window) = 4
    /\ ~InitialValues(interface_states["wlan1"])

\* an interface listed but not activated is not tracked
C18_NotActivatedNotTracked ==
    /\ TickOver
    /\ tick_obs.enumeration = "ok"
    /\ tick_obs.activated = {}
    /\ interface_states = NoInterfaces
    /\ tick_left = 0

---------------------------------------------------------------------------
(* C21: the state of the two boolean gates between ticks *)

\* C21: between ticks, for the coalescing gate and for the power-save gate,
\* pending is Some exactly when the stability counter is at least 1, the
\* counter is below the gate's threshold (2 and 3), and a pending value
\* differs from the applied one.
C21_GateStateInvariant ==
    /\ IsSome(coal.pending_coalescing) <=> coal.coalescing_stable_ticks >= 1
    /\ coal.coalescing_stable_ticks < 2
    /\ IsSome(coal.pending_coalescing) =>
           Unwrap(coal.pending_coalescing) # coal.coalescing_enabled
    /\ IsSome(ps.pending_power_save) <=> ps.power_save_stable_ticks >= 1
    /\ ps.power_save_stable_ticks < 3
    /\ IsSome(ps.pending_power_save) =>
           ps.pending_power_save # ps.power_save_enabled

\* both gates waiting after a tick: coalescing one tick into a change,
\* power save two ticks into a change away from a recorded state
C21_Witness ==
    /\ coal_obs.stepped /\ ps_obs.stepped
    /\ coal.coalescing_stable_ticks = 1
    /\ IsSome(coal.pending_coalescing)
    /\ ps.power_save_stable_ticks = 2
    /\ IsSome(ps.pending_power_save)
    /\ IsSome(ps.power_save_enabled)

\* both gates just fired: nothing pending, counters at 0
C21_BothFired ==
    /\ coal_obs.fired /\ ps_obs.fired
    /\ coal.pending_coalescing = None /\ coal.coalescing_stable_ticks = 0
    /\ ps.pending_power_save = None /\ ps.power_save_stable_ticks = 0

---------------------------------------------------------------------------
(* C22: zero samples are rejected without effect *)

\* C22: a tick whose bitrate scales to 0 Mbit/s leaves the TcManager as it
\* was (window, smoothed value, pending, stability counter, committed
\* bandwidth), has update_bandwidth return false, and runs no tc command.
C22_ZeroSampleRejected ==
    (cake_obs.stepped /\ cake_obs.scaled = 0) =>
        /\ tc = tc_prev
        /\ ~cake_obs.ret
        /\ cake_obs.calls = {}

\* 1999 kbit/s is 1 Mbit/s, 0.85 of it truncates to 0: the sample is
\* dropped while a change is pending, one tick from approval
C22_Witness ==
    /\ cake_obs.stepped
    /\ cake_obs.bitrate = 1999 /\ cake_obs.scaled = 0
    /\ Len(tc.sample_window) = 4
    /\ tc.stable_ticks = 2
    /\ IsSome(tc.pending_bandwidth)
    /\ tc = tc_prev

\* 2000 kbit/s is the first bitrate that is fed to the smoother
C22_FirstAccepted ==
    /\ cake_obs.stepped
    /\ cake_obs.bitrate = 2000 /\ cake_obs.scaled = 1
    /\ tc # tc_prev

---------------------------------------------------------------------------
(* C23: significance gating *)

\* the last call was an update_bandwidth that reached stage 4 with a
\* bandwidth committed
GatedCall ==
    /\ tc_op = "update"
    /\ IsSome(tc_median)
    /\ IsSome(tc_prev.last_bandwidth)

\* the rounded smoothed target of the last call
TargetMbit == Round(tc.smoothed_bandwidth)

\* the target is 25 Mbit/s or 20% away from the committed bandwidth
Significant ==
    LET last == Unwrap(tc_prev.last_bandwidth)
        diff == Abs(TargetMbit - last)
    IN  diff >= 25 \/ 5 * diff >= last

\* C23: with a bandwidth committed, update_bandwidth returns true only when
\* the rounded smoothed target is at least 25 Mbit/s or at least 20% of the
\* committed value away from it; when neither holds it returns false and
\* leaves pending empty and the stability counter at 0.
C23_SignificanceGating ==
    GatedCall =>
        /\ tc_ret => Significant
        /\ ~Significant =>
               /\ ~tc_ret
               /\ tc.pending_bandwidth = None
               /\ tc.stable_ticks = 0

\* 100 committed, the samples alternating around it: a pending change is
\* cleared when the target comes back within 20 of 100
C23_Witness ==
    /\ GatedCall
    /\ tc_prev.last_bandwidth = Some(100)
    /\ ~Significant
    /\ TargetMbit # 100
    /\ tc_prev.stable_ticks >= 1
    /\ IsSome(tc_prev.pending_bandwidth)
    /\ tc.pending_bandwidth = None /\ tc.stable_ticks = 0
    /\ ~tc_ret

\* 100 committed and 110 fed: nothing is ever pending
C23_SmallChange ==
    /\ GatedCall
    /\ tc_prev.last_bandwidth = Some(100)
    /\ tc_arg = 110
    /\ TargetMbit = 105
    /\ ~tc_ret /\ tc.pending_bandwidth = None

---------------------------------------------------------------------------
(* C24: directional hysteresis *)

\* the last call was an update_bandwidth that reached stage 5
ConsideredCall ==
    /\ tc_op = "update"
    /\ IsSome(tc_median)
    /\ (IsSome(tc_prev.last_bandwidth) => Significant)

\* -1, 0 or 1 as x is below, at or above the committed value (0 when none)
SideOf(x) ==
    LET last == UnwrapOr(tc_prev.last_bandwidth, 0)
    IN  IF x < last THEN -1 ELSE IF x > last THEN 1 ELSE 0

\* the target is on the other side of the committed value than pending was
Reversed ==
    /\ IsSome(tc_prev.pending_bandwidth)
    /\ SideOf(Unwrap(tc_prev.pending_bandwidth)) * SideOf(TargetMbit) = -1

\* the stability counter the claim gives the call
CounterDue ==
    IF tc_prev.pending_bandwidth = None \/ Reversed
    THEN 1
    ELSE tc_prev.stable_ticks + 1

\* C24: in a call that considers a change, a target on the opposite side of
\* the committed value from the pending candidate makes the counter 1, a
\* target on the same side adds 1 to it whatever its value, and without a
\* pending candidate the counter starts at 1; pending becomes the target.
\* (A counter that reaches 3 is what makes the call return true.)
C24_DirectionalHysteresis ==
    ConsideredCall =>
        IF CounterDue >= 3
        THEN tc_ret
        ELSE /\ ~tc_ret
             /\ tc.stable_ticks = CounterDue
             /\ tc.pending_bandwidth = Some(TargetMbit)

\* a reversal while a change is pending: the count starts again at 1
C24_Witness ==
    /\ ConsideredCall
    /\ IsSome(tc_prev.last_bandwidth)
    /\ Reversed
    /\ tc_prev.stable_ticks >= 1
    /\ tc.stable_ticks = 1
    /\ tc.pending_bandwidth = Some(TargetMbit)

\* the same side with another value: the count goes on
C24_SameSideOtherValue ==
    /\ ConsideredCall
    /\ IsSome(tc_prev.last_bandwidth)
    /\ IsSome(tc_prev.pending_bandwidth)
    /\ tc_prev.pending_bandwidth # Some(TargetMbit)
    /\ ~Reversed
    /\ tc.stable_ticks = tc_prev.stable_ticks + 1

\* no pending candidate: the count starts at 1
C24_FirstConsideration ==
    /\ ConsideredCall
    /\ IsSome(tc_prev.last_bandwidth)
    /\ tc_prev.pending_bandwidth = None
    /\ tc.stable_ticks = 1

---------------------------------------------------------------------------
(* C25: steering requests go only to qualifying, strictly better APs *)

\* signal plus band bias: 10 for 5 GHz, 25 for 6 GHz
Points(ap) ==
    ap.signal_strength
        + (IF ap.band = 5 THEN 10 ELSE 0) + (IF ap.band = 6 THEN 25 ELSE 0)

\* C25: a scan request is made in a tick only with band steering enabled, a
\* current AP, and a selected candidate of the same SSID, another BSSID, a
\* signal of at least the minimum (50) and a score strictly above the
\* current AP's.
C25_ScanOnlyForStrictlyBetter ==
    roam_obs.scan =>
        /\ roam_cfg.band_steering_enabled
        /\ IsSome(roam_obs.current)
        /\ IsSome(roam_obs.best)
        /\ LET best    == Unwrap(roam_obs.best)
               current == Unwrap(roam_obs.current)
           IN  /\ best.ssid = current.ssid
               /\ best.bssid # current.bssid
               /\ best.signal_strength >= 50
               /\ Points(best) > Points(current)

\* a request for ApA (85 against 70) although a stronger AP of another
\* network and a 6 GHz AP below the minimum signal were in sight in this
\* or an earlier tick
C25_Witness ==
    /\ roam_obs.scan
    /\ roam_obs.current = Some(ApC)
    /\ roam_obs.best = Some(ApA)
    /\ \E i \in 1..Len(roam_obs.aps) : roam_obs.aps[i] \in {ApE, ApW}

\* the only qualifying AP scores what the current one does: no request,
\* and no candidate kept
C25_EqualScore ==
    /\ roam_obs.evaluated
    /\ roam_obs.current = Some(ApC)
    /\ roam_obs.best = Some(ApD)
    /\ IsSome(roam_obs.prev)
    /\ ~roam_obs.scan
    /\ roam_candidate = None

---------------------------------------------------------------------------
(* C26: deterministic step order within a tick *)

\* the order the claim gives the steps of one interface
StepOrder ==
    <<"game_mode", "breathing_cake", "coalescing", "power_save",
      "band_steering">>

\* the steps run so far in this tick are those of the interfaces taken in
\* the order of device_infos, five for each, in StepOrder, and the
\* interface at the head of the queue has not been begun
InOrder ==
    /\ Len(tick_obs.trace) = 5 * (Len(tick_obs.infos) - Len(tick_queue))
    /\ \A k \in 1..Len(tick_obs.trace) :
           tick_obs.trace[k] = <<tick_obs.infos[((k - 1) \div 5) + 1],
                                 StepOrder[((k - 1) % 5) + 1]>>

\* interface n went into game mode in this tick
GameModeSetNow(n) ==
    /\ <<n, "coalescing">> \in tick_obs.ran
    /\ interface_states[n].game_mode_until
           = Some(TickNow + game_mode_cooldown_secs)

\* the coalescing gate of n is as it is after an evaluation that desired
\* no coalescing
DesiredOff(n) ==
    LET c == interface_states[n].coal
    IN  IF c.coalescing_enabled
        THEN c.pending_coalescing = Some(FALSE)
        ELSE c.pending_coalescing = None /\ c.coalescing_stable_ticks = 0

\* C26: the steps of a tick run one interface after the other in the order
\* of the enumeration and, for each, in the order game mode, QoS bandwidth,
\* coalescing, power save, band steering; the coalescing gate sees the
\* game-mode deadline set in the same tick; and a tick begins only when no
\* tick is in progress.
C26_StepOrder ==
    /\ [](tick_obs.enumeration = "ok" => InOrder)
    /\ [](\A n \in DOMAIN interface_states :
              (GameModeSetNow(n) /\ ~HighCpu(tick_obs.cpu_load))
                  => DesiredOff(n))
    /\ [][tick_count' # tick_count =>
              (tick_pc = "sleep" /\ tick_queue = <<>>)]_vars

\* a finished tick over wlan1 then wlan0, ten steps in order; wlan1 went
\* into game mode in this tick, which kept its coalescing gate from firing
\* on the second stable tick
C26_Witness ==
    /\ TickOver
    /\ tick_obs.infos = <<"wlan1", "wlan0">>
    /\ Len(tick_obs.trace) = 10
    /\ tick_obs.trace[3] = <<"wlan1", "coalescing">>
    /\ tick_obs.trace[6] = <<"wlan0", "game_mode">>
    /\ GameModeSetNow("wlan1")
    /\ tick_obs.before["wlan1"].coal.pending_coalescing = Some(TRUE)
    /\ tick_obs.before["wlan1"].game_mode_until = None
    /\ ~interface_states["wlan1"].coal.coalescing_enabled

\* in the middle of a tick: the first interface done, the second not begun
C26_BetweenInterfaces ==
    /\ tick_pc = "loop"
    /\ Len(tick_queue) = 1
    /\ Len(tick_obs.trace) = 5
    /\ tick_obs.trace[5] = <<tick_obs.infos[1], "band_steering">>

---------------------------------------------------------------------------
(* C27: the state of the bandwidth smoother between calls *)

\* C27: after every call pending_bandwidth is Some exactly when
\* stable_ticks is at least 1, stable_ticks is below 3, the window holds at
\* most 5 samples and no 0; after a call that returned true
\* pending_bandwidth is None and stable_ticks is 0.
C27_SmootherStateInvariant ==
    /\ IsSome(tc.pending_bandwidth) <=> tc.stable_ticks >= 1
    /\ tc.stable_ticks < 3
    /\ Len(tc.sample_window) <= 5
    /\ \A i \in 1..Len(tc.sample_window) : tc.sample_window[i] # 0
    /\ (tc_op = "update" /\ tc_ret) =>
           /\ tc.pending_bandwidth = None
           /\ tc.stable_ticks = 0

\* a second approval: two stable ticks towards a new value, a full window,
\* then the call that returns true and empties the gate
C27_Witness ==
    /\ tc_op = "update" /\ tc_ret
    /\ IsSome(tc_prev.last_bandwidth)
    /\ tc_prev.stable_ticks = 2
    /\ IsSome(tc_prev.pending_bandwidth)
    /\ Len(tc_prev.sample_window) = 5
    /\ Len(tc.sample_window) = 5
    /\ tc.pending_bandwidth = None /\ tc.stable_ticks = 0

\* a zero sample arriving while a change is pending: nothing moves
C27_ZeroWhilePending ==
    /\ tc_op = "update" /\ tc_arg = 0
    /\ tc.stable_ticks = 2
    /\ IsSome(tc.pending_bandwidth)


---------------------------------------------------------------------------
(* C28: coalescing actuations are rate-limited and alternate *)

\* C28: the first ethtool call the coalescing gate issues for an interface
\* is an enable; of any two consecutive calls the later one comes no sooner
\* than the second evaluation after the earlier one and carries the opposite
\* value; and the applied state is the value of the last call (disabled
\* before any call).
C28_ActuationsRateLimitedAlternate ==
    /\ (IsSome(coal_acts.last) /\ ~IsSome(coal_acts.prev))
           => Unwrap(coal_acts.last) = TRUE
    /\ IsSome(coal_acts.prev)
           => /\ coal_acts.gap >= 2
              /\ Unwrap(coal_acts.last) # Unwrap(coal_acts.prev)
    /\ coal.coalescing_enabled = UnwrapOr(coal_acts.last, FALSE)

\* an enable, a disable two evaluations later, and an enable two
\* evaluations after that, which has just been issued
C28_Witness ==
    /\ coal_obs.fired
    /\ coal_acts.last = Some(TRUE)
    /\ coal_acts.prev = Some(FALSE)
    /\ coal_acts.gap = 2

\* a disable issued exactly two evaluations after the first enable
C28_DisableAfterEnable ==
    /\ coal_obs.fired
    /\ coal_acts.last = Some(FALSE)
    /\ coal_acts.prev = Some(TRUE)
    /\ coal_acts.gap = 2
    /\ gov_now = 4

\* two actuations further apart than the hysteresis requires
C28_LongGap ==
    /\ IsSome(coal_acts.prev)
    /\ coal_acts.gap >= 3


---------------------------------------------------------------------------
(* C29: steering requests are rate-limited *)

\* C29: of any two consecutive scan requests of an interface the later one
\* comes no sooner than evaluation number roam_hysteresis_ticks, and no
\* sooner than the second evaluation, after the earlier one; a request
\* leaves the accumulator empty, and the evaluation after a request never
\* requests again.
C29_SteeringRateLimited ==
    /\ IsSome(roam_scans.gap)
           => Unwrap(roam_scans.gap)
                  >= Max(roam_cfg.roam_hysteresis_ticks, 2)
    /\ roam_obs.scan => roam_candidate = None
    /\ roam_scans.since = Some(1) => ~roam_obs.scan

\* a second request, with hysteresis 3, on the third evaluation after the
\* first one, the same BSSID leading
C29_Witness ==
    /\ roam_obs.scan
    /\ roam_cfg.roam_hysteresis_ticks = 3
    /\ roam_scans.gap = Some(3)
    /\ roam_streak.n = 3

\* with hysteresis 1 the second request still waits for the second evaluation
C29_HysteresisOne ==
    /\ roam_obs.scan
    /\ roam_cfg.roam_hysteresis_ticks = 1
    /\ roam_scans.gap = Some(2)


---------------------------------------------------------------------------
(* C30: the committed bandwidth is the target of the call that fired *)

\* the target_mbit computed by the update_bandwidth call of the last tick
FiredTarget ==
    Round(update_bandwidth(tc_prev, cake_obs.scaled).tc.smoothed_bandwidth)

\* the last tick ran apply_cake and it returned Ok
CakeCommitted == <<"apply_cake", "ok">> \in cake_obs.calls

\* C30: after a tick whose apply_cake succeeded, last_bandwidth is the
\* target the update_bandwidth call of that tick computed, whatever scaled
\* bitrate the tick passed to apply_cake; and a committed bandwidth is
\* never below 1, so stage 4 never divides by zero.
C30_CommittedEqualsFiredTarget ==
    /\ CakeCommitted
           => /\ cake_obs.ret
              /\ tc.last_bandwidth = Some(FiredTarget)
    /\ IsSome(tc.last_bandwidth) => Unwrap(tc.last_bandwidth) >= 1

\* a commit of 85 Mbit in a tick that passed 510 Mbit to apply_cake
C30_Witness ==
    /\ CakeCommitted
    /\ cake_obs.scaled = 510
    /\ tc.last_bandwidth = Some(85)
    /\ tc_prev.last_bandwidth = None

\* a commit of the smallest target, 1 Mbit
C30_OneMbit ==
    /\ CakeCommitted
    /\ tc.last_bandwidth = Some(1)

\* a commit whose smoothed bandwidth has a fraction of a half or more
C30_RoundedUp ==
    /\ CakeCommitted
    /\ 2 * (tc.smoothed_bandwidth % Scale) >= Scale

=============================================================================
